---- MODULE Spec2Model ----
(***************************************************************************)
(* Verification model of the Duchenne access-coverage toolkit.             *)
(*                                                                         *)
(*   Spec           the coverage run, coverage.py main()                   *)
(*   SpecBand       utils_io.classify_band applied to one value            *)
(*   SpecGeocode    utils_io.geocode_address, one call                     *)
(*   SpecNormalize  the identifier normalisation of loaders.load_coverage  *)
(*   SpecLoad       loaders.load_coverage, loads and rewrites of its source *)
(*   SpecModel      model_dmd.main on one county row                       *)
(*   SpecBranch     utils/github.create_branch against the remote          *)
(*   SpecSave       app.py, the Edit Data tab: edit, revert, save          *)
(*   SpecParse      validate.coerce_distance_band applied to one value     *)
(*   SpecNumeric    validate.numeric_or_nan on one edited column           *)
(*   SpecNearest    coverage.compute_nearest_center on one county          *)
(*   SpecRemote     the remote calls of utils/github.py and utils_io.py    *)
(*                                                                         *)
(* Representation.                                                         *)
(*   - A float cell is a record [k, v]: Num(x) is a number held as the     *)
(*     integer x in the unit of its column, NaN, Inf and NegInf are the    *)
(*     IEEE specials, None is Python's None.  Units: micro-degrees for     *)
(*     coordinates, thousandths of a mile for distances, thousandths of a  *)
(*     minute for times, thousandths of a case for population estimates.   *)
(*   - An identifier string (a FIPS code) is a sequence of one-character   *)
(*     strings, so that str.zfill and slicing are computed, not assumed.   *)
(*   - Other strings (names, state abbreviations, band keys) are TLA+      *)
(*     strings; a missing string cell is StrNaN.                           *)
(***************************************************************************)
EXTENDS Integers, Sequences, FiniteSets, TLC

VARIABLES
    \* ---- coverage run (coverage.py main) ----
    pc,             \* position of main(): see Stages
    df_centers,     \* the care-center table
    df_model,       \* the county model table
    gdf_centroids,  \* the county centroid table
    df,             \* the merged frame with the computed columns
    coverage_csv,   \* COVERAGE_OUTPUT as written
    gap_csv,        \* GAP_OUTPUT as written
    \* ---- classify_band on one value ----
    band_pc, band_value, band_table, band_result,
    \* ---- geocode_address, one call ----
    geo_pc, geo_address, geo_response, geo_result, geo_requests,
    \* ---- identifier normalisation of load_coverage ----
    norm_pc, raw_state_fips, raw_county_fips,
    norm_state_fips, norm_county_fips, norm_geoid,
    prev_state_fips, prev_county_fips, prev_geoid,
    \* ---- load_coverage, the whole load ----
    load_pc,            \* "start", "loaded", "stale" (source replaced since), "reloaded"
    cov_file,           \* data_final/county_coverage.csv
    lookup_file,        \* data/lookups/county_centroids.csv
    load_before_join,   \* df of the last load at line 137, before the centroid join
    load_result,        \* the table the last load returned
    derived_csv,        \* data/derived/coverage_with_coords.csv
    \* ---- model_dmd.main on one county row ----
    dmd_pc,             \* "read" or "written"
    df_pop,             \* the row of ACS_OUTPUT: the four age-band counts
    df_final,           \* the row of DMD_MODEL_OUTPUT: low, mid, high in tenths of a case
    \* ---- utils/github.create_branch, called repeatedly ----
    remote_heads,       \* the branches of the remote repository
    br_base_branch,     \* the argument base_branch
    br_new_branch,      \* the argument new_branch
    br_calls,           \* one record per finished call, in order
    \* ---- app.py, the Edit Data tab ----
    secrets,            \* st.secrets: github_token ("" when not set) and github_branch
    orig_df,            \* the table as loaded when the session began
    edited_df,          \* the working table, st.session_state[session_key]
    local_file,         \* file_path, the persisted CSV
    remote_files,       \* the remote repository: for each branch, the file at the path
    ui_messages,        \* what st.success and st.error show in the current run, in order
    last_save,          \* what the click on Save did, in the run that handles it
    last_click,         \* the widget whose event the last run of the tab handled
    \* utils/validate.py, coerce_distance_band (SpecParse)
    cdb_val,            \* the value handed to coerce_distance_band
    cdb_out,            \* what it returned, "<pending>" before the call
    \* utils/validate.py, numeric_or_nan (SpecNumeric)
    num_original,       \* a numeric column of the table before the edit
    num_series,         \* the same column of the edited table
    num_result,         \* what numeric_or_nan returned for it
    \* coverage.py, compute_nearest_center called by itself (SpecNearest)
    nc_county,          \* the county's coordinate
    nc_centers,         \* the center list handed to the function
    nc_result,          \* what it returned
    \* utils/github.py, the calls of one user action (SpecRemote)
    gh_branches,        \* the branches of the remote repository
    gh_file,            \* the file at the path on the edit branch, if any
    gh_pulls,           \* the pull requests opened
    gh_calls,           \* the finished calls, with the requests each one sent
    gh_procs            \* the commit_file calls under way

coverage_vars == <<pc, df_centers, df_model, gdf_centroids, df, coverage_csv, gap_csv>>
band_vars == <<band_pc, band_value, band_table, band_result>>
geo_vars == <<geo_pc, geo_address, geo_response, geo_result, geo_requests>>
norm_vars == <<norm_pc, raw_state_fips, raw_county_fips,
               norm_state_fips, norm_county_fips, norm_geoid,
               prev_state_fips, prev_county_fips, prev_geoid>>
load_vars == <<load_pc, cov_file, lookup_file, load_before_join, load_result, derived_csv>>
\* The variables of the specifications after the first four.
dmd_vars == <<dmd_pc, df_pop, df_final>>
branch_vars == <<remote_heads, br_base_branch, br_new_branch, br_calls>>
save_vars == <<secrets, orig_df, edited_df, local_file, remote_files, ui_messages, last_save,
               last_click>>
parse_vars == <<cdb_val, cdb_out>>
numeric_vars == <<num_original, num_series, num_result>>
nearest_vars == <<nc_county, nc_centers, nc_result>>
remote_vars == <<gh_branches, gh_file, gh_pulls, gh_calls, gh_procs>>
tail_vars == <<parse_vars, numeric_vars, nearest_vars, remote_vars>>
ext_vars == <<load_vars, dmd_vars, branch_vars, save_vars, tail_vars>>

vars == <<coverage_vars, band_vars, geo_vars, norm_vars, ext_vars>>

-----------------------------------------------------------------------------
(* Bounds of the model.                                                    *)

\* Rows of the county model table.
MaxCounties == 2
\* Rows of the care-center table.
MaxCenters == 2
\* Rows of the downloaded centroid table.
MaxCentroids == 2
\* Largest whole number of miles (or minutes) handed to classify_band.
MaxProbe == 320
\* Longest raw identifier string handed to the normalisation.
MaxIdLen == 5
\* Rows of county_coverage.csv in a load.
MaxCovRows == 2
\* Rows of the centroid lookup table in a load.
MaxLookupRows == 2
\* Calls of create_branch in one run.
MaxBranchCalls == 2
\* Rows of the table open in the editor.
MaxEditRows == 1
\* Cells of a column handed to numeric_or_nan.
MaxSeriesLen == 2
\* Rows of a center list handed to compute_nearest_center by itself.
MaxNearestCenters == 3

-----------------------------------------------------------------------------
(* Float cells.                                                            *)

Num(x) == [k |-> "num", v |-> x]
NaN == [k |-> "nan", v |-> 0]
Inf == [k |-> "inf", v |-> 0]
NegInf == [k |-> "-inf", v |-> 0]
None == [k |-> "none", v |-> 0]
\* A whole number of units as a fixed-point value.
Fx(n) == Num(n * 1000)

\* pd.isna / pd.isnull: None and NaN are missing, +-inf are not.
isna(x) == x.k \in {"nan", "none"}
notnull(x) == ~isna(x)

\* a < b on floats (IEEE: every comparison with NaN is false).
FloatLt(a, b) ==
    CASE a.k = "nan" \/ b.k = "nan" -> FALSE
      [] a.k = "-inf" -> b.k # "-inf"
      [] a.k = "inf" -> FALSE
      [] b.k = "inf" -> TRUE
      [] b.k = "-inf" -> FALSE
      [] OTHER -> a.v < b.v

\* a <= b on floats.
FloatLe(a, b) ==
    CASE a.k = "nan" \/ b.k = "nan" -> FALSE
      [] a.k = "-inf" -> TRUE
      [] b.k = "inf" -> TRUE
      [] a.k = "inf" -> FALSE
      [] b.k = "-inf" -> FALSE
      [] OTHER -> a.v <= b.v

-----------------------------------------------------------------------------
(* config.py: the band tables, in iteration (insertion) order.             *)

BAND_MILES ==
    << [band |-> "<=150", lower |-> Fx(0), upper |-> Fx(150)],
       [band |-> "150_300", lower |-> Fx(150), upper |-> Fx(300)],
       [band |-> ">300", lower |-> Fx(300), upper |-> Inf] >>

BAND_DRIVE ==
    << [band |-> "<=120", lower |-> Fx(0), upper |-> Fx(120)],
       [band |-> "120_360", lower |-> Fx(120), upper |-> Fx(360)],
       [band |-> ">360", lower |-> Fx(360), upper |-> Inf] >>

\* What a raised TypeError is recorded as.
TypeError == "raise TypeError"
Unknown == "Unknown"

\* One test of the loop of classify_band: lower <= value < upper.
BandContains(value, b) == FloatLe(b.lower, value) /\ FloatLt(value, b.upper)

RECURSIVE classify_band_from(_, _, _)
classify_band_from(value, bands, i) ==
    IF i > Len(bands) THEN Unknown
    ELSE IF BandContains(value, bands[i]) THEN bands[i].band
    ELSE classify_band_from(value, bands, i + 1)

\* utils_io.classify_band: the first band whose range holds the value, else
\* "Unknown".  Comparing None with a number raises TypeError.
classify_band(value, bands) ==
    IF value.k = "none" /\ Len(bands) > 0 THEN TypeError
    ELSE classify_band_from(value, bands, 1)

-----------------------------------------------------------------------------
(* Identifier strings.                                                     *)

Digits == <<"0", "1", "2", "3", "4", "5", "6", "7", "8", "9">>

\* str(n) of a non-negative integer, as astype(str) renders an integer column.
RECURSIVE astype_str(_)
astype_str(n) ==
    IF n < 10 THEN <<Digits[n + 1]>>
    ELSE astype_str(n \div 10) \o <<Digits[(n % 10) + 1]>>

\* str.zfill(width) on a string without a sign character.
RECURSIVE zfill(_, _)
zfill(s, width) == IF Len(s) >= width THEN s ELSE zfill(<<"0">> \o s, width)

\* s[-n:], s[:n] and s[n:]
StrLast(s, n) == IF Len(s) <= n THEN s ELSE SubSeq(s, Len(s) - n + 1, Len(s))
StrHead(s, n) == IF Len(s) <= n THEN s ELSE SubSeq(s, 1, n)
StrFrom(s, n) == IF Len(s) <= n THEN <<>> ELSE SubSeq(s, n + 1, Len(s))

\* A missing string cell, and dict.get's None for an identifier.
StrNaN == "<NaN>"
NoFips == <<"None">>

-----------------------------------------------------------------------------
(* Geography.  The model's coordinates are drawn from five points; the     *)
(* distances between them are the values of utils_io.haversine_distance    *)
(* (R = 3958.8 miles), rounded to 0.05 mile.                               *)
(*   1  (32.806671,  -86.791130)  STATE_CENTROIDS["01"], Alabama           *)
(*   2  (61.370716, -152.404419)  STATE_CENTROIDS["02"], Alaska            *)
(*   3  (39.8283,    -98.5795)    the continental-US default               *)
(*   4  (36.16,      -86.78)      a center's own geocoded coordinate       *)
(*   5  (32.5,       -86.5)       a county centroid of the download        *)

Points ==
    << [lat |-> 32806671, lon |-> -86791130],
       [lat |-> 61370716, lon |-> -152404419],
       [lat |-> 39828300, lon |-> -98579500],
       [lat |-> 36160000, lon |-> -86780000],
       [lat |-> 32500000, lon |-> -86500000] >>

Coord(i) == <<Num(Points[i].lat), Num(Points[i].lon)>>

HaversineMiles ==
    << <<0, 3459600, 814950, 231700, 27150>>,
       <<3459600, 0, 2680600, 3271400, 3486650>>,
       <<814950, 2680600, 0, 690000, 841550>>,
       <<231700, 3271400, 690000, 0, 253400>>,
       <<27150, 3486650, 841550, 253400, 0>> >>

PointIndex(lat, lon) ==
    CHOOSE i \in 1..Len(Points) : Points[i].lat = lat.v /\ Points[i].lon = lon.v

\* utils_io.haversine_distance: a NaN argument propagates to the result.
haversine_distance(lat1, lon1, lat2, lon2) ==
    IF "nan" \in {lat1.k, lon1.k, lat2.k, lon2.k} THEN NaN
    ELSE Num(HaversineMiles[PointIndex(lat1, lon1)][PointIndex(lat2, lon2)])

\* coverage.STATE_CENTROIDS.get(fips), for the entries the model uses.
NoCoords == <<>>
STATE_CENTROIDS_get(fips) ==
    CASE fips = <<"0", "1">> -> Coord(1)
      [] fips = <<"0", "2">> -> Coord(2)
      [] OTHER -> NoCoords

\* STATE_ABBR_TO_FIPS.get(state_abbr), for the entries the model uses.
STATE_ABBR_TO_FIPS_get(state_abbr) ==
    CASE state_abbr = "AL" -> <<"0", "1">>
      [] state_abbr = "AK" -> <<"0", "2">>
      [] OTHER -> NoFips

\* The continental-US center, the last fallback.
DefaultCoords == Coord(3)

-----------------------------------------------------------------------------
(* coverage.py: the input tables.                                          *)

NoneStr == "<None>"

\* geocode.py main: center_id is CDCC%03d of the row's position.
CenterIds == <<"CDCC001", "CDCC002", "CDCC003", "CDCC004">>
CenterNames == <<"Akron", "Madison", "Chicago", "Little Rock">>

\* The state cell of a center: an abbreviation of the table, or a cell that is
\* no key of it (missing; a full state name takes the same path).
CenterStates == {"AL", StrNaN}
\* The coordinate cells of a center: both blank, only lat present, both present.
CenterCoordInputs == {<<NaN, NaN>>, <<Coord(4)[1], NaN>>, Coord(4)}

CenterRow(i, st, c) ==
    [center_id |-> CenterIds[i], center_name |-> CenterNames[i],
     state |-> st, lat |-> c[1], lon |-> c[2]]

CenterTables ==
    UNION { { [i \in 1..n |-> CenterRow(i, f[i][1], f[i][2])] :
                f \in [1..n -> CenterStates \X CenterCoordInputs] } :
            n \in 0..MaxCenters }

\* (state_fips, county_fips) as read_csv parses them: integers.
CountyKeys == {<<1, 1>>, <<2, 13>>, <<3, 1>>}
MidValues == {Num(500), Num(900)}

\* The county model table: at least one county, identifiers unique.
ModelTables ==
    UNION { { [i \in 1..n |-> [state_fips |-> f[i][1][1], county_fips |-> f[i][1][2],
                               modeled_dmd_5_24_mid |-> f[i][2]]] :
                f \in { g \in [1..n -> CountyKeys \X MidValues] :
                          \A i, j \in 1..n : i # j => g[i][1] # g[j][1] } } :
            n \in 1..MaxCounties }

\* The downloaded centroid file after the fillna of lines 140-141: a row has a
\* fips (an integer to read_csv) and a coordinate whose lat may be missing.
\* A fips may repeat in the file.
CentroidFips == {1001, 2013}
CentroidCoordInputs == {Coord(5), <<NaN, Coord(5)[2]>>}

CentroidFiles ==
    UNION { { [i \in 1..n |-> [fips |-> f[i][1], centroid_lat |-> f[i][2][1],
                               centroid_lon |-> f[i][2][2]]] :
                f \in [1..n -> CentroidFips \X CentroidCoordInputs] } :
            n \in 0..MaxCentroids }

-----------------------------------------------------------------------------
(* coverage.py: the functions.                                             *)

\* The mutant of assign_center_coords that keeps the row's cells when either
\* one is present.
assign_center_coords_either(row) ==
    IF notnull(row.lat) \/ notnull(row.lon) THEN <<row.lat, row.lon>>
    ELSE LET fips == STATE_ABBR_TO_FIPS_get(row.state)
             coords == STATE_CENTROIDS_get(fips)
         IN  IF coords # NoCoords THEN coords ELSE DefaultCoords

\* The mutant of assign_center_coords that never consults the state table.
assign_center_coords_no_state(row) ==
    IF notnull(row.lat) /\ notnull(row.lon) THEN <<row.lat, row.lon>> ELSE DefaultCoords

\* assign_center_coords (lines 183-192)
assign_center_coords(row) ==
    IF notnull(row.lat) /\ notnull(row.lon) THEN <<row.lat, row.lon>>
    ELSE LET fips == STATE_ABBR_TO_FIPS_get(row.state)
             coords == STATE_CENTROIDS_get(fips)
         IN  IF coords # NoCoords THEN coords ELSE DefaultCoords

\* load_county_centroids (lines 138-144) on the parsed file
load_county_centroids(file) ==
    [i \in 1..Len(file) |->
        LET fips == zfill(astype_str(file[i].fips), 5)
        IN  [state_fips |-> StrHead(fips, 2), county_fips |-> StrFrom(fips, 2),
             centroid_lat |-> file[i].centroid_lat,
             centroid_lon |-> file[i].centroid_lon]]

\* build_state_centroid_df (lines 105-121)
build_state_centroid_df(model) ==
    [i \in 1..Len(model) |->
        LET state_fips == zfill(astype_str(model[i].state_fips), 2)
            county_fips == zfill(astype_str(model[i].county_fips), 3)
            coords == STATE_CENTROIDS_get(state_fips)
            latlon == IF coords # NoCoords THEN coords ELSE DefaultCoords
        IN  [state_fips |-> state_fips, county_fips |-> county_fips,
             centroid_lat |-> latlon[1], centroid_lon |-> latlon[2]]]

\* lines 209-210: the identifier columns of df_model as zero-padded strings
ModelFipsAsStr(model) ==
    [i \in 1..Len(model) |->
        [model[i] EXCEPT !.state_fips = zfill(astype_str(@), 2),
                         !.county_fips = zfill(astype_str(@), 3)]]

\* lines 211-212: the same on the centroid table, whose cells are strings
CentroidFipsAsStr(centroids) ==
    [i \in 1..Len(centroids) |->
        [centroids[i] EXCEPT !.state_fips = zfill(@, 2),
                             !.county_fips = zfill(@, 3)]]

MergedRow(l, lat, lon) ==
    [state_fips |-> l.state_fips, county_fips |-> l.county_fips,
     modeled_dmd_5_24_mid |-> l.modeled_dmd_5_24_mid,
     centroid_lat |-> lat, centroid_lon |-> lon]

\* The rows one left row contributes to a left join: one per matching right
\* row, in the right table's order, or one with missing cells when none matches.
MergeOne(l, right) ==
    LET m == SelectSeq(right, LAMBDA r : r.state_fips = l.state_fips
                                         /\ r.county_fips = l.county_fips)
    IN  IF m = <<>> THEN <<MergedRow(l, NaN, NaN)>>
        ELSE [k \in 1..Len(m) |-> MergedRow(l, m[k].centroid_lat, m[k].centroid_lon)]

\* df_model.merge(gdf_centroids, on=[state_fips, county_fips], how="left")
RECURSIVE merge(_, _)
merge(left, right) ==
    IF left = <<>> THEN <<>>
    ELSE MergeOne(Head(left), right) \o merge(Tail(left), right)

\* compute_nearest_center (lines 149-160): the loop from row i on, best so far
RECURSIVE nearest_scan(_, _, _, _, _)
nearest_scan(county_lat, county_lon, centers, i, best) ==
    IF i > Len(centers) THEN best
    ELSE IF isna(centers[i].lat) \/ isna(centers[i].lon)
         THEN nearest_scan(county_lat, county_lon, centers, i + 1, best)
    ELSE LET dist == haversine_distance(county_lat, county_lon,
                                        centers[i].lat, centers[i].lon)
         IN  IF FloatLt(dist, best.dist)
             THEN nearest_scan(county_lat, county_lon, centers, i + 1,
                               [id |-> centers[i].center_id,
                                name |-> centers[i].center_name, dist |-> dist])
             ELSE nearest_scan(county_lat, county_lon, centers, i + 1, best)

\* The scan run from the last row of the list to the first.
compute_nearest_center_backwards(county_lat, county_lon, centers) ==
    nearest_scan(county_lat, county_lon, [i \in 1..Len(centers) |-> centers[Len(centers) + 1 - i]],
                 1, [id |-> NoneStr, name |-> NoneStr, dist |-> Inf])
compute_nearest_center(county_lat, county_lon, centers) ==
    nearest_scan(county_lat, county_lon, centers, 1,
                 [id |-> NoneStr, name |-> NoneStr, dist |-> Inf])

\* The mutant of drive_time at 30 mph.
drive_time_30mph(dist) ==
    IF dist.k = "num" THEN Num((dist.v \div 30) * 60) ELSE dist

\* dist / 50 * 60 (line 236)
drive_time(dist) ==
    IF dist.k = "num" THEN Num((dist.v \div 50) * 60) ELSE dist

\* The test of line 224: the county has no usable centroid.
CentroidMissing(row) == isna(row.centroid_lat) \/ isna(row.centroid_lon)

\* One pass of the loop of lines 220-238.
NearestColumns(row, centers) ==
    IF CentroidMissing(row)
    THEN [nearest_center_id |-> NoneStr, nearest_center_name |-> NoneStr,
          great_circle_mi |-> None, drive_time_minutes |-> None]
    ELSE LET n == compute_nearest_center(row.centroid_lat, row.centroid_lon, centers)
         IN  [nearest_center_id |-> n.id, nearest_center_name |-> n.name,
              great_circle_mi |-> n.dist,
              drive_time_minutes |-> IF n.dist # None THEN drive_time(n.dist) ELSE None]

\* The mutant of band_of without the notnull guard.
band_of_unguarded(x, bands) == classify_band(x, bands)

\* lines 244-245
band_of(x, bands) == IF notnull(x) THEN classify_band(x, bands) ELSE Unknown

\* The mutant of flags_of that flags every band but the nearest.
flags_of_not_nearest(band_miles, band_drive_time) ==
    IF band_miles # "<=150" THEN "distance_gt_300"
    ELSE IF band_drive_time = ">360" THEN "drive_gt_360" ELSE ""

\* lines 247-252
flags_of(band_miles, band_drive_time) ==
    IF band_miles = ">300" THEN "distance_gt_300"
    ELSE IF band_drive_time = ">360" THEN "drive_gt_360" ELSE ""

\* The frame df after lines 239-252, for one merged row.
CoverageRow(row, centers) ==
    LET n == NearestColumns(row, centers)
        bm == band_of(n.great_circle_mi, BAND_MILES)
        bd == band_of(n.drive_time_minutes, BAND_DRIVE)
    IN  [state_fips |-> row.state_fips, county_fips |-> row.county_fips,
         modeled_dmd_5_24_mid |-> row.modeled_dmd_5_24_mid,
         centroid_lat |-> row.centroid_lat, centroid_lon |-> row.centroid_lon,
         nearest_center_id |-> n.nearest_center_id,
         nearest_center_name |-> n.nearest_center_name,
         great_circle_mi |-> n.great_circle_mi,
         drive_time_minutes |-> n.drive_time_minutes,
         band_miles |-> bm, band_drive_time |-> bd,
         flags |-> flags_of(bm, bd)]

\* lines 254-261: the columns kept in df_cov
df_cov_row(r) ==
    [state_fips |-> r.state_fips, county_fips |-> r.county_fips,
     nearest_center_id |-> r.nearest_center_id,
     nearest_center_name |-> r.nearest_center_name,
     great_circle_mi |-> r.great_circle_mi,
     drive_time_minutes |-> r.drive_time_minutes,
     band_miles |-> r.band_miles, band_drive_time |-> r.band_drive_time,
     modeled_dmd_5_24_mid |-> r.modeled_dmd_5_24_mid, flags |-> r.flags]

df_cov_of(frame) == [i \in 1..Len(frame) |-> df_cov_row(frame[i])]

\* line 265: the gap filter
IsGapRow(r) == r.band_miles = ">300" \/ r.band_drive_time = ">360"
gap_filter(cov) == SelectSeq(cov, IsGapRow)

\* The mutant of SortOrderOk that sorts ascending.
SortOrderAscending(a, b) == FloatLe(a.modeled_dmd_5_24_mid, b.modeled_dmd_5_24_mid)

\* line 266: sort_values(by=mid, ascending=False).  The default sort is not
\* stable, so rows with equal keys may come out in any order.
SortOrderOk(a, b) == FloatLe(b.modeled_dmd_5_24_mid, a.modeled_dmd_5_24_mid)
IndexPerms(n) == { p \in [1..n -> 1..n] : \A i, j \in 1..n : i # j => p[i] # p[j] }
sort_values_desc(t) ==
    { s \in { [i \in 1..Len(t) |-> t[p[i]]] : p \in IndexPerms(Len(t)) } :
        \A i \in 1..(Len(s) - 1) : SortOrderOk(s[i], s[i + 1]) }

-----------------------------------------------------------------------------
(* coverage.py main(): the run.                                            *)

IdleBand ==
    /\ band_pc = "idle" /\ band_value = NaN /\ band_table = "" /\ band_result = ""
IdleGeo ==
    /\ geo_pc = "idle" /\ geo_address = "" /\ geo_response = <<>>
    /\ geo_result = <<>> /\ geo_requests = 0
IdleNorm ==
    /\ norm_pc = "idle" /\ raw_state_fips = <<>> /\ raw_county_fips = <<>>
    /\ norm_state_fips = <<>> /\ norm_county_fips = <<>> /\ norm_geoid = <<>>
    /\ prev_state_fips = <<>> /\ prev_county_fips = <<>> /\ prev_geoid = <<>>
IdleCoverage ==
    /\ pc = "idle" /\ df_centers = <<>> /\ df_model = <<>> /\ gdf_centroids = <<>>
    /\ df = <<>> /\ coverage_csv = <<>> /\ gap_csv = <<>>
IdleLoad ==
    /\ load_pc = "idle" /\ cov_file = <<>> /\ lookup_file = <<>>
    /\ load_before_join = <<>> /\ load_result = <<>> /\ derived_csv = <<>>
IdleDmd == dmd_pc = "idle" /\ df_pop = <<>> /\ df_final = <<>>
IdleBranch ==
    /\ remote_heads = {} /\ br_base_branch = "" /\ br_new_branch = "" /\ br_calls = <<>>
IdleSave ==
    /\ secrets = <<>> /\ orig_df = <<>> /\ edited_df = <<>> /\ local_file = <<>>
    /\ remote_files = <<>> /\ ui_messages = <<>> /\ last_save = <<>> /\ last_click = ""
IdleParse == cdb_val = <<>> /\ cdb_out = ""
IdleNumeric == num_original = <<>> /\ num_series = <<>> /\ num_result = <<>>
IdleNearest == nc_county = <<>> /\ nc_centers = <<>> /\ nc_result = <<>>
IdleRemote ==
    /\ gh_branches = {} /\ gh_file = <<>> /\ gh_pulls = <<>> /\ gh_calls = <<>>
    /\ gh_procs = <<>>
IdleTail == IdleParse /\ IdleNumeric /\ IdleNearest /\ IdleRemote
IdleExt == IdleLoad /\ IdleDmd /\ IdleBranch /\ IdleSave /\ IdleTail

\* lines 165-166: both input tables read.
Init ==
    /\ pc = "read"
    /\ df_centers \in CenterTables
    /\ df_model \in ModelTables
    /\ gdf_centroids = <<>> /\ df = <<>> /\ coverage_csv = <<>> /\ gap_csv = <<>>
    /\ IdleBand /\ IdleGeo /\ IdleNorm /\ IdleExt

\* lines 193-200: every center row gets the coordinates assign_center_coords returns.
AssignCenterCoords ==
    /\ pc = "read"
    /\ df_centers' = [i \in 1..Len(df_centers) |->
                        [df_centers[i] EXCEPT !.lat = assign_center_coords(df_centers[i])[1],
                                              !.lon = assign_center_coords(df_centers[i])[2]]]
    /\ pc' = "centers_assigned"
    /\ UNCHANGED <<df_model, gdf_centroids, df, coverage_csv, gap_csv>>
    /\ UNCHANGED <<band_vars, geo_vars, norm_vars, ext_vars>>

\* lines 202-203: the centroid download succeeds.
LoadCentroids ==
    /\ pc = "centers_assigned"
    /\ \E file \in CentroidFiles : gdf_centroids' = load_county_centroids(file)
    /\ pc' = "centroids_loaded"
    /\ UNCHANGED <<df_centers, df_model, df, coverage_csv, gap_csv>>
    /\ UNCHANGED <<band_vars, geo_vars, norm_vars, ext_vars>>

\* lines 204-207: the download raises; state centers stand in.
LoadCentroidsFallback ==
    /\ pc = "centers_assigned"
    /\ gdf_centroids' = build_state_centroid_df(df_model)
    /\ pc' = "centroids_loaded"
    /\ UNCHANGED <<df_centers, df_model, df, coverage_csv, gap_csv>>
    /\ UNCHANGED <<band_vars, geo_vars, norm_vars, ext_vars>>

\* lines 209-263: identifiers to strings, the left join, the nearest-center
\* loop, the bands, the flags, and the coverage file written.
ComputeCoverage ==
    /\ pc = "centroids_loaded"
    /\ df_model' = ModelFipsAsStr(df_model)
    /\ gdf_centroids' = CentroidFipsAsStr(gdf_centroids)
    /\ LET merged == merge(df_model', gdf_centroids')
       IN  df' = [i \in 1..Len(merged) |-> CoverageRow(merged[i], df_centers)]
    /\ coverage_csv' = df_cov_of(df')
    /\ pc' = "coverage_written"
    /\ UNCHANGED <<df_centers, gap_csv>>
    /\ UNCHANGED <<band_vars, geo_vars, norm_vars, ext_vars>>

\* lines 265-268: the gap table filtered, sorted and written.
WriteGap ==
    /\ pc = "coverage_written"
    /\ gap_csv' \in sort_values_desc(gap_filter(df_cov_of(df)))
    /\ pc' = "done"
    /\ UNCHANGED <<df_centers, df_model, gdf_centroids, df, coverage_csv>>
    /\ UNCHANGED <<band_vars, geo_vars, norm_vars, ext_vars>>

Next ==
    \/ AssignCenterCoords
    \/ LoadCentroids
    \/ LoadCentroidsFallback
    \/ ComputeCoverage
    \/ WriteGap

Spec == Init /\ [][Next]_vars

-----------------------------------------------------------------------------
(* utils_io.classify_band on one value (SpecBand).                         *)

\* Whole miles or minutes from below zero to MaxProbe, values next to the two
\* inner boundaries, a very large value, and the non-finite floats and None.
BandProbeValues ==
    { Fx(n) : n \in (-2)..MaxProbe }
    \cup { Num(149999), Num(150001), Num(299999), Num(300001), Fx(1000 * 1000) }
    \cup { NaN, Inf, NegInf, None }

BandTables == {"BAND_MILES", "BAND_DRIVE"}
BandTable(name) == IF name = "BAND_MILES" THEN BAND_MILES ELSE BAND_DRIVE

InitBand ==
    /\ band_pc = "call"
    /\ band_value \in BandProbeValues
    /\ band_table \in BandTables
    /\ band_result = ""
    /\ IdleCoverage /\ IdleGeo /\ IdleNorm /\ IdleExt

\* One call classify_band(value, bands).
ClassifyBand ==
    /\ band_pc = "call"
    /\ band_result' = classify_band(band_value, BandTable(band_table))
    /\ band_pc' = "returned"
    /\ UNCHANGED <<band_value, band_table>>
    /\ UNCHANGED <<coverage_vars, geo_vars, norm_vars, ext_vars>>

NextBand == ClassifyBand

SpecBand == InitBand /\ [][NextBand]_vars

-----------------------------------------------------------------------------
(* utils_io.geocode_address, one call (SpecGeocode).                       *)

\* A cell of a result item that is text but no number.
Text == [k |-> "text", v |-> 0]
\* item.get("lat"): a number as text, text that is no number, or no such key.
ItemCells == {Num(36160000), Text, None}
NoItem == [lat |-> None, lon |-> None]
Items == [lat : ItemCells, lon : ItemCells]

\* The body of the HTTP response: not JSON, a (non-empty) JSON object, JSON
\* null, or a JSON list of zero or one result items.
Bodies ==
    { [json |-> "invalid", items |-> <<>>], [json |-> "object", items |-> <<>>],
      [json |-> "null", items |-> <<>>], [json |-> "list", items |-> <<>>] }
    \cup { [json |-> "list", items |-> <<it>>] : it \in Items }

StatusCodes == {200, 403, 429, 503}

\* What requests.get(..., timeout=10) does: raises, or returns a response.
TransportErrors ==
    { [transport |-> e, status_code |-> 0, body |-> [json |-> "invalid", items |-> <<>>]] :
        e \in {"ConnectionError", "Timeout"} }
HttpResponses ==
    { [transport |-> "ok", status_code |-> c, body |-> b] : c \in StatusCodes, b \in Bodies }

Addresses ==
    { "Akron Children's Hospital, Akron, OH, USA",
      "UCLA Health, Los Angeles, CA, USA",
      "Billings Clinic, Billings, MT, USA" }

Return(lat, lon, raw) == [kind |-> "return", none |-> FALSE, lat |-> lat, lon |-> lon, raw |-> raw, exc |-> ""]
ReturnNone == [kind |-> "return", none |-> TRUE, lat |-> None, lon |-> None, raw |-> NoItem, exc |-> ""]
Raise(e) == [kind |-> "raise", none |-> FALSE, lat |-> None, lon |-> None, raw |-> NoItem, exc |-> e]

\* float(x) of an item cell: the exception it raises, or "" when it parses.
FloatError(cell) ==
    CASE cell.k = "none" -> "TypeError"
      [] cell.k = "text" -> "ValueError"
      [] OTHER -> ""

\* The body of the try block (lines 48-65).
geocode_try(address, resp) ==
    IF resp.transport # "ok" THEN Raise(resp.transport)
    ELSE IF resp.status_code # 200 THEN ReturnNone
    ELSE IF resp.body.json = "invalid" THEN Raise("JSONDecodeError")
    ELSE IF resp.body.json = "null" THEN ReturnNone
    ELSE IF resp.body.json = "list" /\ resp.body.items = <<>> THEN ReturnNone
    ELSE IF resp.body.json = "object" THEN Raise("KeyError")
    ELSE LET item == resp.body.items[1]
         IN  IF FloatError(item.lat) # "" THEN Raise(FloatError(item.lat))
             ELSE IF FloatError(item.lon) # "" THEN Raise(FloatError(item.lon))
             ELSE Return(item.lat, item.lon, item)

\* The mutant of geocode_address without its except clause.
geocode_address_no_except(address, resp) == geocode_try(address, resp)

\* geocode_address (lines 41-67): except Exception: return None
geocode_address(address, resp) ==
    IF geocode_try(address, resp).kind = "raise" THEN ReturnNone
    ELSE geocode_try(address, resp)

NoResponse == [transport |-> "", status_code |-> 0, body |-> [json |-> "invalid", items |-> <<>>]]

InitGeocode ==
    /\ geo_pc = "call"
    /\ geo_address \in Addresses
    /\ geo_response = NoResponse
    /\ geo_result = ReturnNone
    /\ geo_requests = 0
    /\ IdleCoverage /\ IdleBand /\ IdleNorm /\ IdleExt

\* The call in which requests.get raises (no connection, or the 10 s timeout).
GeocodeTransportError ==
    /\ geo_pc = "call"
    /\ \E resp \in TransportErrors :
          /\ geo_response' = resp
          /\ geo_result' = geocode_address(geo_address, resp)
    /\ geo_requests' = geo_requests + 1
    /\ geo_pc' = "returned"
    /\ UNCHANGED geo_address
    /\ UNCHANGED <<coverage_vars, band_vars, norm_vars, ext_vars>>

\* The call in which the service answers.
GeocodeResponse ==
    /\ geo_pc = "call"
    /\ \E resp \in HttpResponses :
          /\ geo_response' = resp
          /\ geo_result' = geocode_address(geo_address, resp)
    /\ geo_requests' = geo_requests + 1
    /\ geo_pc' = "returned"
    /\ UNCHANGED geo_address
    /\ UNCHANGED <<coverage_vars, band_vars, norm_vars, ext_vars>>

NextGeocode == GeocodeTransportError \/ GeocodeResponse

SpecGeocode == InitGeocode /\ [][NextGeocode]_vars

-----------------------------------------------------------------------------
(* loaders.load_coverage: the identifier normalisation (SpecNormalize).    *)

IdChars == {"0", "1"}
\* An identifier cell of the coverage file, read with dtype str.
RawIds == UNION { [1..n -> IdChars] : n \in 1..MaxIdLen }
\* An empty identifier cell: read_csv leaves NaN in the str column.
IdNaN == <<"<NaN>">>
\* The identifier column is not in the file.
AbsentColumn == <<"<absent>">>
\* line 127: pd.NA
IdNA == <<"<NA>">>
\* What the file can hold under state_fips or county_fips.
RawIdCells == RawIds \cup {IdNaN}
RawIdColumns == RawIdCells \cup {AbsentColumn}

\* lines 117, 121: Series.astype(str) turns the NaN of an empty cell into 'nan'.
astype_str_cell(s) == IF s = IdNaN THEN <<"n", "a", "n">> ELSE s

\* The mutant of county_fips_norm that pads and does not cut.
county_fips_pad_only(s) == zfill(astype_str_cell(s), 3)

\* line 117: astype(str).str.zfill(2)
state_fips_norm(s) == zfill(astype_str_cell(s), 2)
\* lines 121-122: astype(str).str.zfill(3), then .str[-3:]
county_fips_norm(s) == StrLast(zfill(astype_str_cell(s), 3), 3)
\* line 125
geoid_of(state_fips, county_fips) == state_fips \o county_fips

\* lines 115-117: the state column is normalized when the file has it.
state_fips_column(s) == IF s = AbsentColumn THEN AbsentColumn ELSE state_fips_norm(s)
\* lines 118-122: the county column is normalized when the file has it.
county_fips_column(s) == IF s = AbsentColumn THEN AbsentColumn ELSE county_fips_norm(s)
\* lines 124-127: geoid is the concatenation when both columns exist, pd.NA otherwise.
geoid_column(state_fips, county_fips) ==
    IF state_fips # AbsentColumn /\ county_fips # AbsentColumn
    THEN geoid_of(state_fips, county_fips)
    ELSE IdNA

InitNormalize ==
    /\ norm_pc = "raw"
    /\ raw_state_fips \in RawIdColumns
    /\ raw_county_fips \in RawIdColumns
    /\ norm_state_fips = <<>> /\ norm_county_fips = <<>> /\ norm_geoid = <<>>
    /\ prev_state_fips = <<>> /\ prev_county_fips = <<>> /\ prev_geoid = <<>>
    /\ IdleCoverage /\ IdleBand /\ IdleGeo /\ IdleExt

\* lines 113-127 on a file holding the raw codes.
NormalizeIds ==
    /\ norm_pc = "raw"
    /\ norm_state_fips' = state_fips_column(raw_state_fips)
    /\ norm_county_fips' = county_fips_column(raw_county_fips)
    /\ norm_geoid' = geoid_column(norm_state_fips', norm_county_fips')
    /\ norm_pc' = "normalized"
    /\ UNCHANGED <<raw_state_fips, raw_county_fips,
                   prev_state_fips, prev_county_fips, prev_geoid>>
    /\ UNCHANGED <<coverage_vars, band_vars, geo_vars, ext_vars>>

\* lines 113-127 again, on a file that holds the normalized codes.
RenormalizeIds ==
    /\ norm_pc = "normalized"
    /\ prev_state_fips' = norm_state_fips
    /\ prev_county_fips' = norm_county_fips
    /\ prev_geoid' = norm_geoid
    /\ norm_state_fips' = state_fips_column(norm_state_fips)
    /\ norm_county_fips' = county_fips_column(norm_county_fips)
    /\ norm_geoid' = geoid_column(norm_state_fips', norm_county_fips')
    /\ norm_pc' = "renormalized"
    /\ UNCHANGED <<raw_state_fips, raw_county_fips>>
    /\ UNCHANGED <<coverage_vars, band_vars, geo_vars, ext_vars>>

NextNormalize == NormalizeIds \/ RenormalizeIds

SpecNormalize == InitNormalize /\ [][NextNormalize]_vars

-----------------------------------------------------------------------------
(* loaders.load_coverage and ensure_lat_lon: the whole load (SpecLoad).    *)
(*                                                                         *)
(* A table is a record [has_lat, has_lon, rows]; a row carries src, the    *)
(* number of the row of county_coverage.csv it comes from.  A cell of a    *)
(* column the table does not have is NoCell.                               *)

NoCell == [k |-> "absent", v |-> 0]
\* An empty field of a written CSV file.
EmptyField == [k |-> "empty", v |-> 0]

\* lines 56-66: rename_map; a name it does not list is left alone.
rename_column(name) ==
    CASE name \in {"centroid_lat", "county_lat", "latitude", "lat"} -> "lat"
      [] name \in {"centroid_lon", "county_lon", "longitude", "lon", "lng"} -> "lon"
      [] OTHER -> name

\* lines 75, 146-147: pd.to_numeric(errors="coerce")
to_numeric(cell) == IF cell.k = "num" THEN cell ELSE IF cell = NoCell THEN NoCell ELSE NaN

\* The header names the files of the model use for the coordinate columns
\* ("" when the file has no such column).
LatNames == {"", "lat"}
LonNames == {"", "centroid_lon"}
\* The raw identifiers of the rows of county_coverage.csv, by row number.
CoverageRowIds ==
    << <<<<"1">>, <<"1">>>>,
       <<<<"0", "1">>, <<"0", "0", "3">>>>,
       <<<<"1">>, <<"1", "0", "0", "1">>>>,
       <<<<"0", "1">>, <<"3">>>> >>
\* A coordinate cell of county_coverage.csv.
CoverageLatCells == {Num(Points[5].lat), NaN}
CoverageLonCells == {Num(Points[5].lon), NaN}

CoverageFileRows(n, lat_name, lon_name) ==
    { rows \in [1..n -> [state_fips : {s[1] : s \in {CoverageRowIds[i] : i \in 1..Len(CoverageRowIds)}},
                         county_fips : {s[2] : s \in {CoverageRowIds[i] : i \in 1..Len(CoverageRowIds)}},
                         lat : CoverageLatCells \cup {NoCell},
                         lon : CoverageLonCells \cup {NoCell}]] :
        \A i \in 1..n :
            /\ rows[i].state_fips = CoverageRowIds[i][1]
            /\ rows[i].county_fips = CoverageRowIds[i][2]
            /\ (rows[i].lat = NoCell) <=> (lat_name = "")
            /\ (rows[i].lon = NoCell) <=> (lon_name = "") }

\* county_coverage.csv as a pipeline run, an edit or a replaced file leaves it.
CoverageFiles ==
    UNION { UNION { UNION { { [lat_name |-> a, lon_name |-> o, rows |-> r] :
                                r \in CoverageFileRows(n, a, o) } :
                            n \in 0..MaxCovRows } : a \in LatNames } : o \in LonNames }

\* data/lookups/county_centroids.csv: GEOID, INTPTLAT, INTPTLONG.
LookupGeoids == { <<"0", "1", "0", "0", "1">>, <<"0", "1", "0", "0", "3">> }
LookupLatCells == {Num(Points[1].lat), NaN}
LookupRows == [geoid : LookupGeoids, centroid_lat : LookupLatCells,
               centroid_lon : {Num(Points[1].lon)}]
NoLookupFile == [exists |-> FALSE, rows |-> <<>>]
LookupFiles ==
    {NoLookupFile} \cup
    UNION { { [exists |-> TRUE, rows |-> r] : r \in [1..n -> LookupRows] } : n \in 0..MaxLookupRows }

\* lines 113-127: the file read and the identifiers normalized.
read_coverage(file) ==
    [has_lat |-> file.lat_name # "", lat_name |-> file.lat_name,
     has_lon |-> file.lon_name # "", lon_name |-> file.lon_name,
     rows |-> [i \in 1..Len(file.rows) |->
                 [src |-> i,
                  state_fips |-> state_fips_column(file.rows[i].state_fips),
                  county_fips |-> county_fips_column(file.rows[i].county_fips),
                  geoid |-> geoid_column(state_fips_column(file.rows[i].state_fips),
                                         county_fips_column(file.rows[i].county_fips)),
                  lat |-> file.rows[i].lat,
                  lon |-> file.rows[i].lon]]]

HasCoords(row) == notnull(row.lat) /\ notnull(row.lon)

\* lines 34-84: names to lat and lon, cells coerced, and, when the table has
\* both columns, every row lacking either coordinate dropped.
ensure_lat_lon(t) ==
    LET has_lat == t.has_lat /\ rename_column(t.lat_name) = "lat"
        has_lon == t.has_lon /\ rename_column(t.lon_name) = "lon"
        coerced == [i \in 1..Len(t.rows) |->
                      [t.rows[i] EXCEPT !.lat = to_numeric(@), !.lon = to_numeric(@)]]
    IN  [has_lat |-> has_lat, has_lon |-> has_lon,
         rows |-> IF has_lat /\ has_lon THEN SelectSeq(coerced, HasCoords) ELSE coerced]

\* lines 133-138: missing_mask.any()
missing_mask_any(t) ==
    IF t.has_lat /\ t.has_lon
    THEN \E i \in 1..Len(t.rows) : isna(t.rows[i].lat) \/ isna(t.rows[i].lon)
    ELSE Len(t.rows) > 0

\* line 149 for one left row: one output row per lookup row of the same geoid,
\* in the lookup's order; one row with NaN centroids when there is none.
lookup_merge_one(row, lookup) ==
    LET hits == SelectSeq(lookup, LAMBDA r : r.geoid = row.geoid)
    IN  IF Len(hits) = 0
        THEN << [row |-> row, centroid_lat |-> NaN, centroid_lon |-> NaN] >>
        ELSE [j \in 1..Len(hits) |->
                [row |-> row, centroid_lat |-> to_numeric(hits[j].centroid_lat),
                              centroid_lon |-> to_numeric(hits[j].centroid_lon)]]

\* line 149: df.merge(lookup, on="geoid", how="left")
RECURSIVE lookup_merge(_, _)
lookup_merge(rows, lookup) ==
    IF Len(rows) = 0 THEN <<>>
    ELSE lookup_merge_one(Head(rows), lookup) \o lookup_merge(Tail(rows), lookup)

\* The mutant of fillna that takes the lookup's value whatever the cell holds.
fillna_overwrite(cell, fill) == fill

\* lines 154, 158: Series.fillna
fillna(cell, fill) == IF isna(cell) THEN fill ELSE cell

\* lines 150-160: lat and lon created or filled from the centroid columns,
\* which are then dropped.
backfill(t, merged) ==
    [has_lat |-> TRUE, has_lon |-> TRUE,
     rows |-> [i \in 1..Len(merged) |->
                 [merged[i].row EXCEPT
                    !.lat = IF t.has_lat THEN fillna(@, merged[i].centroid_lat)
                                         ELSE merged[i].centroid_lat,
                    !.lon = IF t.has_lon THEN fillna(@, merged[i].centroid_lon)
                                         ELSE merged[i].centroid_lon]]]

\* lines 138-160: the join, made when some row lacks a coordinate and the
\* lookup file exists.
centroid_join(t, lookup_file_) ==
    IF missing_mask_any(t) /\ lookup_file_.exists
    THEN backfill(t, lookup_merge(t.rows, lookup_file_.rows))
    ELSE t

\* line 169: DataFrame.to_csv(index=False): the columns in order, a NaN as
\* an empty field; the row index (src) is not written.
csv_field(cell) == IF cell.k = "nan" THEN EmptyField ELSE cell
to_csv(t) ==
    [exists |-> TRUE, has_lat |-> t.has_lat, has_lon |-> t.has_lon,
     rows |-> [i \in 1..Len(t.rows) |->
                 [state_fips |-> t.rows[i].state_fips,
                  county_fips |-> t.rows[i].county_fips,
                  geoid |-> t.rows[i].geoid,
                  lat |-> csv_field(t.rows[i].lat),
                  lon |-> csv_field(t.rows[i].lon)]]]

\* The mutant of write_file that opens the file for appending.
write_file_append(old, new) ==
    IF old.exists THEN [new EXCEPT !.rows = old.rows \o new.rows] ELSE new

\* line 169: the file is opened for writing, what it held is gone.
write_file(old, new) == new

NoFile == [exists |-> FALSE, has_lat |-> FALSE, has_lon |-> FALSE, rows |-> <<>>]
NoTable == [has_lat |-> FALSE, has_lon |-> FALSE, rows |-> <<>>]

\* The files as they are before the first load of a session.
InitLoad ==
    /\ load_pc = "start"
    /\ cov_file \in CoverageFiles
    /\ lookup_file \in LookupFiles
    /\ load_before_join = NoTable
    /\ load_result = NoTable
    /\ derived_csv = NoFile
    /\ IdleCoverage /\ IdleBand /\ IdleGeo /\ IdleNorm /\ IdleDmd /\ IdleBranch /\ IdleSave
    /\ IdleTail

\* lines 111-171: one call of load_coverage().
LoadCoverage ==
    /\ load_before_join' = ensure_lat_lon(read_coverage(cov_file))
    /\ load_result' = centroid_join(load_before_join', lookup_file)
    /\ derived_csv' = write_file(derived_csv, to_csv(load_result'))
    /\ load_pc' = IF load_pc = "stale" THEN "reloaded" ELSE "loaded"
    /\ UNCHANGED <<cov_file, lookup_file>>
    /\ UNCHANGED <<coverage_vars, band_vars, geo_vars, norm_vars, dmd_vars, branch_vars, save_vars, tail_vars>>

\* Between two loads county_coverage.csv is written again: by a run of the
\* coverage pipeline, by the editor's save, or by a replaced file.  (Several
\* writes between two loads leave what the last one wrote, and a write before
\* the first load leaves another initial state.)
ReplaceCoverage ==
    /\ load_pc \in {"loaded", "reloaded"}
    /\ \E file \in CoverageFiles : file # cov_file /\ cov_file' = file
    /\ load_pc' = "stale"
    /\ UNCHANGED <<lookup_file, load_before_join, load_result, derived_csv>>
    /\ UNCHANGED <<coverage_vars, band_vars, geo_vars, norm_vars, dmd_vars, branch_vars, save_vars, tail_vars>>

NextLoad == LoadCoverage \/ ReplaceCoverage

SpecLoad == InitLoad /\ [][NextLoad]_vars

-----------------------------------------------------------------------------
(* model_dmd.main on one county row (SpecModel).                           *)
(*                                                                         *)
(* The arithmetic is exact: a count is an integer, a rate is an integer    *)
(* number of cases per million persons, the fraction is in hundredths, so  *)
(* an estimate is an integer number of 1e-8 cases (EstimateUnit to a       *)
(* case); the written columns are integers in tenths of a case.            *)

\* config.py lines 25-27: 1.47, 1.3 and 1.8 per 10,000, in cases per million.
DBMD_PREVALENCE_MID == 147
DBMD_PREVALENCE_LOW == 130
DBMD_PREVALENCE_HIGH == 180
\* config.py line 30: 0.75, in hundredths.
DMD_FRACTION_OF_DBMD == 75
\* config.py line 35: 6 per 100,000, in cases per million.
DMD_DIAGNOSED_PREVALENCE == 60
\* 1e-8 cases in one tenth of a case.
TenthInUnits == 10 ^ 7

\* A cell of an age-band column of ACS_OUTPUT.
AgeCounts == {NaN, Num(-25000), Num(0), Num(1), Num(625), Num(25000)}
AgeColumns == {"male_5_9", "male_10_14", "male_15_19", "male_20_24"}
PopRows == [AgeColumns -> AgeCounts]

\* line 31: DataFrame.sum(axis=1) skips the NaN cells.
skipna(cell) == IF cell.k = "num" THEN cell.v ELSE 0
male_5_24_total(row) ==
    skipna(row["male_5_9"]) + skipna(row["male_10_14"])
    + skipna(row["male_15_19"]) + skipna(row["male_20_24"])

Min2(a, b) == IF a <= b THEN a ELSE b
Max2(a, b) == IF a >= b THEN a ELSE b

\* line 50: Series.round(1) of num / den cases given as an integer ratio of
\* tenths: to the nearest tenth, a tie to the even tenth.
round_half_even(num, den) ==
    LET q == num \div den
        r == num - q * den
    IN  IF 2 * r < den THEN q
        ELSE IF 2 * r > den THEN q + 1
        ELSE IF q % 2 = 0 THEN q ELSE q + 1

\* lines 37, 39: the registry-derived estimates, in 1e-8 cases.
dmd_from_dbmd_low(total) == total * DBMD_PREVALENCE_LOW * DMD_FRACTION_OF_DBMD
dmd_from_dbmd_mid(total) == total * DBMD_PREVALENCE_MID * DMD_FRACTION_OF_DBMD
dmd_from_dbmd_high(total) == total * DBMD_PREVALENCE_HIGH * DMD_FRACTION_OF_DBMD
\* line 41, in 1e-8 cases.
dmd_diagnosed(total) == total * DMD_DIAGNOSED_PREVALENCE * 100

\* The mutant of modeled_dmd_5_24_low that takes the registry-derived low alone.
modeled_dmd_5_24_low_registry(total) ==
    round_half_even(dmd_from_dbmd_low(total), TenthInUnits)

\* lines 43, 50
modeled_dmd_5_24_low(total) ==
    round_half_even(Min2(dmd_from_dbmd_low(total), dmd_diagnosed(total)), TenthInUnits)
\* lines 45, 50
modeled_dmd_5_24_high(total) ==
    round_half_even(Max2(dmd_from_dbmd_high(total), dmd_diagnosed(total)), TenthInUnits)

\* The mutant of modeled_dmd_5_24_mid that takes the registry-derived mid alone.
modeled_dmd_5_24_mid_registry(total) ==
    round_half_even(dmd_from_dbmd_mid(total), TenthInUnits)

\* lines 47, 50: the sum is halved, so the ratio is over two tenths.
modeled_dmd_5_24_mid(total) ==
    round_half_even(dmd_from_dbmd_mid(total) + dmd_diagnosed(total), 2 * TenthInUnits)

NoEstimates == [male_5_24_total |-> 0, low |-> 0, mid |-> 0, high |-> 0]

InitModel ==
    /\ dmd_pc = "read"
    /\ df_pop \in PopRows
    /\ df_final = NoEstimates
    /\ IdleCoverage /\ IdleBand /\ IdleGeo /\ IdleNorm /\ IdleLoad /\ IdleBranch /\ IdleSave
    /\ IdleTail

\* lines 28-64 for one row.
ModelDmd ==
    /\ dmd_pc = "read"
    /\ LET total == male_5_24_total(df_pop)
       IN  df_final' = [male_5_24_total |-> total,
                        low |-> modeled_dmd_5_24_low(total),
                        mid |-> modeled_dmd_5_24_mid(total),
                        high |-> modeled_dmd_5_24_high(total)]
    /\ dmd_pc' = "written"
    /\ UNCHANGED df_pop
    /\ UNCHANGED <<coverage_vars, band_vars, geo_vars, norm_vars, load_vars, branch_vars, save_vars, tail_vars>>

NextModel == ModelDmd

SpecModel == InitModel /\ [][NextModel]_vars

-----------------------------------------------------------------------------
(* utils/github.create_branch against the remote repository (SpecBranch).  *)
(*                                                                         *)
(* The remote is the set of its branch names.  It answers a request with   *)
(* the status the GitHub REST API gives: 200/201 on success, 404 for a     *)
(* ref that does not exist, 422 for a ref that cannot be created (it       *)
(* exists already, or its name is no valid ref name), and 401 or 500 when  *)
(* the token is refused or the service fails.                              *)

\* The faults of one request: none, token refused, service failure.
RequestFaults == {0, 401, 500}
\* Branch names handed to create_branch; the last is no valid ref name.
ValidBranchNames == {"edit-coverage-20260101T000000Z", "edit-centers-20260101T000000Z"}
InvalidBranchNames == {"edit..coverage"}
BaseBranchNames == {"main", "gone"}

\* lines 29-32: GET /repos/{owner}/{name}/git/ref/heads/{base_branch}
get_ref(heads, base_branch, fault) ==
    IF fault # 0 THEN fault
    ELSE IF base_branch \in heads THEN 200 ELSE 404

\* lines 39-43: POST /repos/{owner}/{name}/git/refs
post_ref(heads, new_branch, fault) ==
    IF fault # 0 THEN [status_code |-> fault, heads |-> heads]
    ELSE IF new_branch \in InvalidBranchNames THEN [status_code |-> 422, heads |-> heads]
    ELSE IF new_branch \in heads THEN [status_code |-> 422, heads |-> heads]
    ELSE [status_code |-> 201, heads |-> heads \cup {new_branch}]

\* line 38
ref_of(new_branch) == <<"refs", "heads", new_branch>>
NoRef == <<>>

\* How a call ends, with the statuses of its requests (0: not sent) and the
\* remote's branches after it.
BranchReturn(ref, get, post, heads) ==
    [kind |-> "return", ref |-> ref, exc |-> "", get |-> get, post |-> post, after |-> heads]
BranchRaise(exc, get, post, heads) ==
    [kind |-> "raise", ref |-> NoRef, exc |-> exc, get |-> get, post |-> post, after |-> heads]

\* lines 44-48: a 422 is taken for 'already exists'; another error status raises.
create_branch_post(get, r2, new_branch) ==
    IF r2.status_code = 422
    THEN BranchReturn(ref_of(new_branch), get, r2.status_code, r2.heads)
    ELSE IF r2.status_code >= 400
    THEN BranchRaise("HTTPError", get, r2.status_code, r2.heads)
    ELSE BranchReturn(ref_of(new_branch), get, r2.status_code, r2.heads)

\* lines 25-48: the call, with the faults of its two requests.
create_branch(heads, base_branch, new_branch, fault1, fault2) ==
    LET get == get_ref(heads, base_branch, fault1)
    IN  IF get = 404 THEN BranchRaise("RuntimeError", get, 0, heads)
        ELSE IF get >= 400 THEN BranchRaise("HTTPError", get, 0, heads)
        ELSE create_branch_post(get, post_ref(heads, new_branch, fault2), new_branch)

InitBranch ==
    /\ remote_heads \in {{"main"} \cup bs : bs \in SUBSET ValidBranchNames}
    /\ br_base_branch \in BaseBranchNames
    /\ br_new_branch \in ValidBranchNames \cup InvalidBranchNames
    /\ br_calls = <<>>
    /\ IdleCoverage /\ IdleBand /\ IdleGeo /\ IdleNorm /\ IdleLoad /\ IdleDmd /\ IdleSave
    /\ IdleTail

\* One call create_branch(repo, base_branch, new_branch, token).
CreateBranch ==
    /\ Len(br_calls) < MaxBranchCalls
    /\ \E fault1, fault2 \in RequestFaults :
          LET call == create_branch(remote_heads, br_base_branch, br_new_branch, fault1, fault2)
          IN  /\ br_calls' = Append(br_calls, call)
              /\ remote_heads' = call.after
    /\ UNCHANGED <<br_base_branch, br_new_branch>>
    /\ UNCHANGED <<coverage_vars, band_vars, geo_vars, norm_vars, load_vars, dmd_vars, save_vars, tail_vars>>

NextBranch == CreateBranch

SpecBranch == InitBranch /\ [][NextBranch]_vars

-----------------------------------------------------------------------------
(* app.py, the Edit Data tab: edit, revert and save (SpecSave).            *)
(*                                                                         *)
(* The table in the editor is a sequence of rows [geoid, lat].  The remote *)
(* repository holds one file per branch at the path of the CSV; the blob   *)
(* sha of a file is modelled by its content.                               *)

\* What the editor lets a user leave in a row.
EditGeoids == { <<"0", "1", "0", "0", "1">>, <<"1", "0", "0", "1">> }
EditLatCells == {Num(Points[5].lat), Text}
\* A row with at most one of its two cells spoiled.
EditRows == { r \in [geoid : EditGeoids, lat : EditLatCells] :
                Len(r.geoid) = 5 \/ r.lat # Text }
\* A table of the editor: at most one of its cells is spoiled.
EditTables ==
    { t \in UNION { [1..n -> EditRows] : n \in 0..MaxEditRows } :
        Cardinality({ i \in 1..Len(t) : Len(t[i].geoid) # 5 \/ t[i].lat = Text }) <= 1 }

\* lines 472-475: pd.to_numeric(edited_df["lat"], errors="coerce"), in place.
coerce_lat(t) == [i \in 1..Len(t) |-> [t[i] EXCEPT !.lat = to_numeric(@)]]

\* lines 491, 505: DataFrame.to_csv(index=False)
edit_to_csv(t) == [i \in 1..Len(t) |-> [t[i] EXCEPT !.lat = csv_field(@)]]

\* utils/validate.py lines 49-53: len(s) == 5 and s.isdigit()
validate_fips(fips) ==
    /\ Len(fips) = 5
    /\ \A i \in 1..Len(fips) : \E d \in 1..Len(Digits) : fips[i] = Digits[d]

\* The branches of the remote repository.
RemoteBranches == {"main", "data-edits"}
\* line 484: st.secrets.get("github_branch", "main")
DefaultBranch == "main"
\* What one HTTP request can meet: nothing, a transport error, a refused
\* token, a failing service.
SaveFaults == {"none", "ConnectionError", "401", "500"}
FaultStatus(fault) == IF fault = "401" THEN 401 ELSE 500

\* The blob sha of a file, and the sha of no file.
sha_of(content) == [none |-> FALSE, blob |-> content]
NoSha == [none |-> TRUE, blob |-> <<>>]
HttpRaise(exc) == [raised |-> TRUE, exc |-> exc, status_code |-> 0, sha |-> NoSha]
HttpAnswer(status, sha) == [raised |-> FALSE, exc |-> "", status_code |-> status, sha |-> sha]
ok(resp) == resp.status_code < 400

\* line 488: GET /repos/{owner}/{name}/contents/{path}, no ref: the file on
\* the repository's default branch.
contents_get(files, fault) ==
    IF fault = "ConnectionError" THEN HttpRaise("ConnectionError")
    ELSE IF fault # "none" THEN HttpAnswer(FaultStatus(fault), NoSha)
    ELSE HttpAnswer(200, sha_of(files[DefaultBranch]))

\* line 499: PUT /repos/{owner}/{name}/contents/{path}: the file on the
\* branch is replaced when the sha sent is that of the file it holds.
contents_put(files, branch, content, sha, fault) ==
    IF fault = "ConnectionError" THEN [resp |-> HttpRaise("ConnectionError"), files |-> files]
    ELSE IF fault # "none" THEN [resp |-> HttpAnswer(FaultStatus(fault), NoSha), files |-> files]
    ELSE IF branch \notin DOMAIN files THEN [resp |-> HttpAnswer(404, NoSha), files |-> files]
    ELSE IF sha = NoSha THEN [resp |-> HttpAnswer(422, NoSha), files |-> files]
    ELSE IF sha # sha_of(files[branch]) THEN [resp |-> HttpAnswer(409, NoSha), files |-> files]
    ELSE [resp |-> HttpAnswer(200, sha_of(content)), files |-> [files EXCEPT ![branch] = content]]

\* The messages of the tab.
MsgCommitted == [level |-> "success", text |-> "Committed changes", cause |-> 0]
MsgCommitFailed(status) == [level |-> "error", text |-> "Failed to commit to GitHub", cause |-> status]
MsgSavedLocally == [level |-> "success", text |-> "Saved locally", cause |-> 0]
MsgErrorSaving == [level |-> "error", text |-> "Error saving", cause |-> 0]

NoSave ==
    [clicked |-> FALSE, working_before |-> <<>>, local_before |-> <<>>,
     get_sent |-> FALSE, put_sent |-> FALSE, put_status |-> 0, put_branch |-> "",
     put_content |-> <<>>, exc |-> "", local_written |-> FALSE]

\* lines 469-513: what one click on Save does, given what its two requests meet.
save_click(secrets_, edited, local, files, fault_get, fault_put) ==
    LET coerced == coerce_lat(edited)
        csv == edit_to_csv(coerced)
        token == secrets_.github_token
        branch == secrets_.github_branch
        get == contents_get(files, fault_get)
        sha == IF ok(get) THEN get.sha ELSE NoSha
        put == contents_put(files, branch, csv, sha, fault_put)
        base == [NoSave EXCEPT !.clicked = TRUE, !.working_before = edited,
                               !.local_before = local]
    IN  IF token = ""
        THEN \* lines 504-506 alone
             [edited_df |-> coerced, local_file |-> csv, remote_files |-> files,
              ui_messages |-> <<MsgSavedLocally>>,
              last_save |-> [base EXCEPT !.local_written = TRUE]]
        ELSE IF get.raised
        THEN \* line 488 raises, line 512 reports
             [edited_df |-> coerced, local_file |-> local, remote_files |-> files,
              ui_messages |-> <<MsgErrorSaving>>,
              last_save |-> [base EXCEPT !.get_sent = TRUE, !.exc = get.exc]]
        ELSE IF put.resp.raised
        THEN \* line 499 raises, line 512 reports
             [edited_df |-> coerced, local_file |-> local, remote_files |-> files,
              ui_messages |-> <<MsgErrorSaving>>,
              last_save |-> [base EXCEPT !.get_sent = TRUE, !.put_sent = TRUE,
                                         !.put_branch = branch, !.put_content = csv,
                                         !.exc = put.resp.exc]]
        ELSE \* lines 500-506: the answer reported, then the local write
             [edited_df |-> coerced, local_file |-> csv, remote_files |-> put.files,
              ui_messages |-> << IF ok(put.resp) THEN MsgCommitted
                                                 ELSE MsgCommitFailed(put.resp.status_code),
                                 MsgSavedLocally >>,
              last_save |-> [base EXCEPT !.get_sent = TRUE, !.put_sent = TRUE,
                                         !.put_branch = branch, !.put_content = csv,
                                         !.put_status = put.resp.status_code,
                                         !.local_written = TRUE]]

\* The session begins: the table is loaded from the persisted file, which the
\* remote holds too on each of its branches.
InitSave ==
    /\ secrets \in [github_token : {"", "ghp_token"}, github_branch : RemoteBranches]
    /\ orig_df \in { coerce_lat(t) : t \in EditTables }
    /\ edited_df = orig_df
    /\ local_file = edit_to_csv(orig_df)
    /\ remote_files = [b \in RemoteBranches |-> edit_to_csv(orig_df)]
    /\ ui_messages = <<>>
    /\ last_save = NoSave
    /\ last_click = ""
    /\ IdleCoverage /\ IdleBand /\ IdleGeo /\ IdleNorm /\ IdleLoad /\ IdleDmd /\ IdleBranch
    /\ IdleTail

\* lines 445-452: the user changes the table in the editor; the script runs
\* again and shows no message of an earlier run.
EditTable ==
    /\ \E t \in EditTables : t # edited_df /\ edited_df' = t
    /\ ui_messages' = <<>>
    /\ last_save' = NoSave
    /\ last_click' = "editor"
    /\ UNCHANGED <<secrets, orig_df, local_file, remote_files>>
    /\ UNCHANGED <<coverage_vars, band_vars, geo_vars, norm_vars, load_vars, dmd_vars, branch_vars, tail_vars>>

\* A table whose rows are objects of their own: DataFrame.copy().
copy(t) == [i \in 1..Len(t) |-> t[i]]

\* line 466 with the working table left as it is.
revert_click_keep(orig, working) == working
\* line 466: st.session_state[session_key] = orig_df.copy()
revert_click(orig, working) == copy(orig)

\* lines 465-467: Revert.
RevertTable ==
    /\ edited_df' = revert_click(orig_df, edited_df)
    /\ ui_messages' = <<>>
    /\ last_save' = NoSave
    /\ last_click' = "revert"
    /\ UNCHANGED <<secrets, orig_df, local_file, remote_files>>
    /\ UNCHANGED <<coverage_vars, band_vars, geo_vars, norm_vars, load_vars, dmd_vars, branch_vars, tail_vars>>

\* lines 469-513: Save.
SaveTable ==
    /\ \E fault_get, fault_put \in SaveFaults :
          LET out == save_click(secrets, edited_df, local_file, remote_files,
                                fault_get, fault_put)
          IN  \* a fault is one of a request that is sent
              /\ secrets.github_token = "" => fault_get = "none"
              /\ (secrets.github_token = "" \/ fault_get = "ConnectionError")
                     => fault_put = "none"
              /\ edited_df' = out.edited_df
              /\ local_file' = out.local_file
              /\ remote_files' = out.remote_files
              /\ ui_messages' = out.ui_messages
              /\ last_save' = out.last_save
    /\ last_click' = "save"
    /\ UNCHANGED <<secrets, orig_df>>
    /\ UNCHANGED <<coverage_vars, band_vars, geo_vars, norm_vars, load_vars, dmd_vars, branch_vars, tail_vars>>

NextSave == EditTable \/ RevertTable \/ SaveTable

SpecSave == InitSave /\ [][NextSave]_vars

-----------------------------------------------------------------------------
(* utils/validate.py: coerce_distance_band (SpecParse).                    *)
(*                                                                         *)
(* A string is a sequence of characters; the characters outside ASCII are  *)
(* named by their code points.                                             *)

EnDash == "U+2013"
EmDash == "U+2014"
LessEqSign == "U+2264"
GreaterEqSign == "U+2265"
Whitespace == {" "}
\* A value that is None and no string.
NoVal == <<"<None>">>

RECURSIVE lstrip(_)
lstrip(s) == IF s # <<>> /\ Head(s) \in Whitespace THEN lstrip(Tail(s)) ELSE s
RECURSIVE rstrip(_)
rstrip(s) ==
    IF s # <<>> /\ s[Len(s)] \in Whitespace THEN rstrip(SubSeq(s, 1, Len(s) - 1)) ELSE s
\* str.strip()
strip(s) == rstrip(lstrip(s))

\* str.replace(old, new) for a one-character old.
RECURSIVE replace(_, _, _)
replace(s, old, new) ==
    IF s = <<>> THEN <<>>
    ELSE (IF Head(s) = old THEN new ELSE <<Head(s)>>) \o replace(Tail(s), old, new)

\* str.startswith(key)
startswith(s, key) == Len(s) >= Len(key) /\ SubSeq(s, 1, Len(key)) = key

\* lines 68-77: the lookup dict, in its insertion order.
lookup ==
    << [key |-> <<"<", "=", "1", "5", "0">>,                     canonical |-> "<=150"],
       [key |-> <<"<", "=", " ", "1", "5", "0">>,                canonical |-> "<=150"],
       [key |-> <<"1", "5", "0", "-", "3", "0", "0">>,           canonical |-> "150_300"],
       [key |-> <<"1", "5", "0", " ", "-", " ", "3", "0", "0">>, canonical |-> "150_300"],
       [key |-> <<"1", "5", "0", "_", "3", "0", "0">>,           canonical |-> "150_300"],
       [key |-> <<">", "3", "0", "0">>,                          canonical |-> ">300"],
       [key |-> <<">", " ", "3", "0", "0">>,                     canonical |-> ">300"],
       [key |-> <<"3", "0", "0", "+">>,                          canonical |-> ">300"] >>

\* lines 81-84: the first key of the dict that s starts with.
RECURSIVE lookup_startswith(_, _)
lookup_startswith(s, i) ==
    IF i > Len(lookup) THEN NoneStr
    ELSE IF startswith(s, lookup[i].key) THEN lookup[i].canonical
    ELSE lookup_startswith(s, i + 1)

\* lines 55-85.  The replacements of "<=" by "<=" and of ">=" by ">=" on line
\* 67 change no string; the third one spells the greater-or-equal sign out.
coerce_distance_band(val) ==
    IF val = NoVal THEN NoneStr
    ELSE LET s0 == replace(strip(val), EnDash, <<"-">>)
             s == replace(s0, GreaterEqSign, <<">", "=">>)
         IN  IF \E i \in 1..Len(lookup) : lookup[i].key = s
             THEN lookup[CHOOSE i \in 1..Len(lookup) : lookup[i].key = s].canonical
             ELSE lookup_startswith(s, 1)

\* The three canonical band strings.
CanonicalBands == {"<=150", "150_300", ">300"}

\* Band values as users write them: the canonical forms, ranges with a
\* hyphen or a dash, a leading comparison operator, raw numbers.
BandCores ==
    { <<"<", "=", "1", "5", "0">>, <<"<", "=", " ", "1", "5", "0">>,
      <<LessEqSign, "1", "5", "0">>,
      <<"1", "5", "0", "-", "3", "0", "0">>, <<"1", "5", "0", " ", "-", " ", "3", "0", "0">>,
      <<"1", "5", "0", EnDash, "3", "0", "0">>, <<"1", "5", "0", EmDash, "3", "0", "0">>,
      <<"1", "5", "0", "_", "3", "0", "0">>,
      <<">", "3", "0", "0">>, <<">", " ", "3", "0", "0">>, <<"3", "0", "0", "+">>,
      <<">", "=", "3", "0", "0">>, <<GreaterEqSign, "3", "0", "0">>,
      <<"1", "0", "0">>, <<"1", "5", "0">>, <<"2", "0", "0">>, <<"3", "0", "0">>,
      <<"4", "0", "0">> }
\* Values that name no band.
OtherCores == { <<>>, <<"n", "/", "a">>, <<"-">> }
LeadPads == { <<>>, <<" ">> }
\* Trailing whitespace and unit suffixes, in either case.
TrailPads == { <<>>, <<" ">>, <<" ", "m", "i", "l", "e", "s">>, <<" ", "M", "I", "L", "E", "S">> }
Padded(cores) == { l \o c \o t : l \in LeadPads, c \in cores, t \in TrailPads }
ParseInputs == Padded(BandCores) \cup Padded(OtherCores) \cup {NoVal}

InitParse ==
    /\ cdb_val \in ParseInputs
    /\ cdb_out = "<pending>"
    /\ IdleCoverage /\ IdleBand /\ IdleGeo /\ IdleNorm
    /\ IdleLoad /\ IdleDmd /\ IdleBranch /\ IdleSave /\ IdleNumeric /\ IdleNearest /\ IdleRemote

\* One call coerce_distance_band(val).
CoerceDistanceBand ==
    /\ cdb_out = "<pending>"
    /\ cdb_out' = coerce_distance_band(cdb_val)
    /\ UNCHANGED cdb_val
    /\ UNCHANGED <<coverage_vars, band_vars, geo_vars, norm_vars, load_vars, dmd_vars, branch_vars, save_vars,
                   numeric_vars, nearest_vars, remote_vars>>

NextParse == CoerceDistanceBand

SpecParse == InitParse /\ [][NextParse]_vars

-----------------------------------------------------------------------------
(* utils/validate.py: numeric_or_nan (SpecNumeric).                        *)
(*                                                                         *)
(* A declared-numeric column before the edit and after it, cell by cell.   *)

\* A cell of the column as loaded: a number or missing.
OriginalCells == {Num(1), NaN}
\* A cell as the editor leaves it: a number, missing, or text.
EditedCells == {Num(1), Num(2), NaN, Text}
SeriesPairs ==
    UNION { [original : [1..n -> OriginalCells], series : [1..n -> EditedCells]] :
              n \in 0..MaxSeriesLen }

\* line 102: pd.to_numeric(series, errors="coerce")
to_numeric_series(series) == [i \in 1..Len(series) |-> to_numeric(series[i])]

\* lines 87-103: the coerced series and int(coerced.isna().sum())
numeric_or_nan(series) ==
    LET coerced == to_numeric_series(series)
    IN  [coerced |-> coerced,
         count |-> Cardinality({ i \in 1..Len(coerced) : isna(coerced[i]) })]

NoCount == [coerced |-> <<>>, count |-> -1]

InitNumeric ==
    /\ \E p \in SeriesPairs : num_original = p.original /\ num_series = p.series
    /\ num_result = NoCount
    /\ IdleCoverage /\ IdleBand /\ IdleGeo /\ IdleNorm
    /\ IdleLoad /\ IdleDmd /\ IdleBranch /\ IdleSave /\ IdleParse /\ IdleNearest /\ IdleRemote

\* One call numeric_or_nan(series) on the edited column.
NumericOrNan ==
    /\ num_result = NoCount
    /\ num_result' = numeric_or_nan(num_series)
    /\ UNCHANGED <<num_original, num_series>>
    /\ UNCHANGED <<coverage_vars, band_vars, geo_vars, norm_vars, load_vars, dmd_vars, branch_vars, save_vars,
                   parse_vars, nearest_vars, remote_vars>>

NextNumeric == NumericOrNan

SpecNumeric == InitNumeric /\ [][NextNumeric]_vars

-----------------------------------------------------------------------------
(* coverage.py: compute_nearest_center called on any center list           *)
(* (SpecNearest): rows without a coordinate, rows at the same place.       *)

\* The coordinate cells of a center row handed to the function.
NearestCoordInputs ==
    {Coord(1), Coord(3), Coord(4), <<NaN, Coord(4)[2]>>, <<Coord(4)[1], NaN>>}
NearestCenterLists ==
    UNION { { [i \in 1..n |-> CenterRow(i, "AL", f[i])] : f \in [1..n -> NearestCoordInputs] } :
            n \in 0..MaxNearestCenters }
\* The county: lines 224-229 call the function with both cells present.
NearestCounties == {Coord(5), Coord(1)}

NoNearest == [id |-> "<pending>", name |-> "<pending>", dist |-> NaN]

InitNearest ==
    /\ nc_county \in NearestCounties
    /\ nc_centers \in NearestCenterLists
    /\ nc_result = NoNearest
    /\ IdleCoverage /\ IdleBand /\ IdleGeo /\ IdleNorm
    /\ IdleLoad /\ IdleDmd /\ IdleBranch /\ IdleSave /\ IdleParse /\ IdleNumeric /\ IdleRemote

\* One call compute_nearest_center(county_lat, county_lon, centers_df).
ComputeNearestCenter ==
    /\ nc_result = NoNearest
    /\ nc_result' = compute_nearest_center(nc_county[1], nc_county[2], nc_centers)
    /\ UNCHANGED <<nc_county, nc_centers>>
    /\ UNCHANGED <<coverage_vars, band_vars, geo_vars, norm_vars, load_vars, dmd_vars, branch_vars, save_vars,
                   parse_vars, numeric_vars, remote_vars>>

NextNearest == ComputeNearestCenter

SpecNearest == InitNearest /\ [][NextNearest]_vars

-----------------------------------------------------------------------------
(* utils/github.py and utils_io.geocode_address: the remote calls of one   *)
(* user action (SpecRemote).                                               *)
(*                                                                         *)
(* The remote repository holds its branches and one file at the path of    *)
(* the CSV; the branch of the edits, once created, holds that file.  The   *)
(* blob sha of a file is modelled by its content.  Two commit_file calls   *)
(* run side by side, each in two steps (the GET of _get_file_sha, the      *)
(* PUT), and another writer may change the file at any moment.  Each       *)
(* finished call is logged with the requests it sent.                      *)

\* The repo argument: "owner/name", or a string without a slash.
Repos == { <<"owner", "/", "name">>, <<"duchenne">> }
\* lines 18-22: _split_repo raises ValueError for a repo without "/".
split_repo(repo) ==
    IF \E i \in 1..Len(repo) : repo[i] = "/" THEN "ok" ELSE "ValueError"

EditBranch == "data-edits"
\* The content of the file: absent, as first published, or as a writer left it.
Absent == <<"<absent>">>
FirstContent == <<"v0">>
\* What each of the two commit_file calls writes, and what the other writer does.
CommitContents == << <<"A">>, <<"B">> >>
OtherContent == <<"X">>
CommitProcs == 1..2

\* The file a request sees at the path on the edit branch.
file_on_branch(branches, file) == IF EditBranch \in branches THEN file ELSE Absent

\* One request of a call: its method and the status of its answer, 0 when
\* the request raised (no answer).
Req(method, status) == [method |-> method, status_code |-> status]

\* lines 52-56: GET /repos/{owner}/{name}/contents/{path}?ref={branch}
get_contents(branches, file, fault) ==
    IF fault = "ConnectionError" THEN 0
    ELSE IF fault # "none" THEN FaultStatus(fault)
    ELSE IF file_on_branch(branches, file) = Absent THEN 404 ELSE 200

\* lines 51-61: _get_file_sha: None for a 404, raise for another error.
get_file_sha(branches, file, fault) ==
    LET status == get_contents(branches, file, fault)
    IN  IF status = 0 THEN [kind |-> "raise", sha |-> NoSha, status_code |-> 0]
        ELSE IF status = 404 THEN [kind |-> "return", sha |-> NoSha, status_code |-> 404]
        ELSE IF status >= 400 THEN [kind |-> "raise", sha |-> NoSha, status_code |-> status]
        ELSE [kind |-> "return", sha |-> sha_of(file), status_code |-> status]

\* The mutant of commit_payload that always carries the sha key.
commit_payload_always_sha(content, sha) ==
    [content |-> content, branch |-> EditBranch, has_sha |-> TRUE, sha |-> sha]

\* lines 72-79: the payload; the sha key only when a sha was fetched.
commit_payload(content, sha) ==
    [content |-> content, branch |-> EditBranch, has_sha |-> sha # NoSha, sha |-> sha]

NoPayload == [content |-> <<>>, branch |-> "", has_sha |-> FALSE, sha |-> NoSha]

\* lines 81-87: PUT /repos/{owner}/{name}/contents/{path}.  The remote
\* creates the file when there is none and no sha is given, replaces it when
\* the sha given is that of the file it holds, and refuses otherwise.
put_contents(branches, file, payload, fault) ==
    IF fault = "ConnectionError" THEN [status_code |-> 0, file |-> file]
    ELSE IF fault # "none" THEN [status_code |-> FaultStatus(fault), file |-> file]
    ELSE IF EditBranch \notin branches THEN [status_code |-> 404, file |-> file]
    ELSE IF file = Absent
    THEN IF payload.has_sha THEN [status_code |-> 422, file |-> file]
         ELSE [status_code |-> 201, file |-> payload.content]
    ELSE IF ~payload.has_sha THEN [status_code |-> 422, file |-> file]
    ELSE IF payload.sha # sha_of(file) THEN [status_code |-> 409, file |-> file]
    ELSE [status_code |-> 200, file |-> payload.content]

\* The mutant of raise_for_status that lets every answer pass.
raise_for_status_never(status) == "return"

\* lines 88, 100: r.raise_for_status(); a request that raised has raised.
raise_for_status(status) == IF status = 0 \/ status >= 400 THEN "raise" ELSE "return"

NoCommit == [seen |-> <<>>, before_put |-> <<>>, after |-> <<>>, payload |-> NoPayload]
NoEffect == [branches |-> 0, commits |-> 0, pulls |-> 0]

\* A finished call.
Call(fn, proc, requests, kind, effect, commit) ==
    [fn |-> fn, proc |-> proc, requests |-> requests, kind |-> kind, effect |-> effect,
     commit |-> commit]

\* The mutant of open_pr that sends its POST again after a failure.
open_pr_retrying(repo, branches, pulls, fault) ==
    IF split_repo(repo) # "ok" THEN [requests |-> <<>>, kind |-> "raise", pulls |-> pulls]
    ELSE LET status == IF fault = "ConnectionError" THEN 0
                       ELSE IF fault # "none" THEN FaultStatus(fault)
                       ELSE IF EditBranch \notin branches THEN 422
                       ELSE 201
             retry == IF EditBranch \in branches THEN 201 ELSE 422
         IN  IF status = 201
             THEN [requests |-> <<Req("POST", 201)>>, kind |-> "return",
                   pulls |-> Append(pulls, EditBranch)]
             ELSE [requests |-> <<Req("POST", status), Req("POST", retry)>>,
                   kind |-> raise_for_status(retry),
                   pulls |-> IF retry = 201 THEN Append(pulls, EditBranch) ELSE pulls]

\* lines 92-101: open_pr: one POST /repos/{owner}/{name}/pulls.  The remote
\* refuses a pull request whose head branch does not exist or has one open.
open_pr(repo, branches, pulls, fault) ==
    IF split_repo(repo) # "ok" THEN [requests |-> <<>>, kind |-> "raise", pulls |-> pulls]
    ELSE LET status == IF fault = "ConnectionError" THEN 0
                       ELSE IF fault # "none" THEN FaultStatus(fault)
                       ELSE IF EditBranch \notin branches \/ pulls # <<>> THEN 422
                       ELSE 201
         IN  [requests |-> <<Req("POST", status)>>, kind |-> raise_for_status(status),
              pulls |-> IF status = 201 THEN Append(pulls, EditBranch) ELSE pulls]

IdleProc == [pc |-> "idle", sha |-> NoSha, seen |-> <<>>, get_status |-> 0]

\* The calls of the user action: one of each function, and the two
\* commit_file calls; the write of the other writer is logged with them.
CallSlots ==
    {"geocode_address", "create_branch", "open_pr", "commit_file 1", "commit_file 2",
     "other writer"}
CommitSlot(p) == IF p = 1 THEN "commit_file 1" ELSE "commit_file 2"
NoCall == Call("", 0, <<>>, "", NoEffect, NoCommit)
Called(slot) == gh_calls[slot] # NoCall
Log(slot, call) == [gh_calls EXCEPT ![slot] = call]

InitRemote ==
    /\ gh_branches \in {{"main"}, {"main", EditBranch}}
    /\ gh_file \in {Absent, FirstContent}
    /\ gh_pulls = <<>>
    /\ gh_calls = [slot \in CallSlots |-> NoCall]
    /\ gh_procs = [p \in CommitProcs |-> IdleProc]
    /\ IdleCoverage /\ IdleBand /\ IdleGeo /\ IdleNorm
    /\ IdleLoad /\ IdleDmd /\ IdleBranch /\ IdleSave /\ IdleParse /\ IdleNumeric /\ IdleNearest

\* What the one GET of geocode_address meets: a transport error, or an answer
\* of any status with no result or one result.
GeocodeAnswers ==
    TransportErrors
    \cup { r \in HttpResponses :
             /\ r.body.json = "list"
             /\ \A i \in 1..Len(r.body.items) : r.body.items[i].lat = r.body.items[i].lon }

\* One call geocode_address(address): its one GET, whatever the answer.
GeocodeCall ==
    /\ ~Called("geocode_address")
    /\ \E address \in {"UCLA Health, Los Angeles, CA, USA"}, resp \in GeocodeAnswers :
          gh_calls' = Log("geocode_address",
              Call("geocode_address", 0,
                   <<Req("GET", IF resp.transport = "ok" THEN resp.status_code ELSE 0)>>,
                   geocode_address(address, resp).kind, NoEffect, NoCommit))
    /\ UNCHANGED <<gh_branches, gh_file, gh_pulls, gh_procs>>
    /\ UNCHANGED <<coverage_vars, band_vars, geo_vars, norm_vars, load_vars, dmd_vars, branch_vars, save_vars,
                   parse_vars, numeric_vars, nearest_vars>>

\* One call create_branch(repo, "main", EditBranch, token).
CreateBranchCall ==
    /\ ~Called("create_branch")
    /\ \E repo \in Repos, fault1, fault2 \in RequestFaults :
          LET call == create_branch(gh_branches, "main", EditBranch, fault1, fault2)
              requests == <<Req("GET", call.get)>>
                          \o (IF call.post # 0 THEN <<Req("POST", call.post)>> ELSE <<>>)
          IN  IF split_repo(repo) # "ok"
              THEN /\ gh_calls' = Log("create_branch",
                          Call("create_branch", 0, <<>>, "raise", NoEffect, NoCommit))
                   /\ UNCHANGED gh_branches
              ELSE /\ gh_calls' = Log("create_branch",
                          Call("create_branch", 0, requests, call.kind,
                               [NoEffect EXCEPT !.branches = Cardinality(call.after \ gh_branches)],
                               NoCommit))
                   /\ gh_branches' = call.after
    /\ UNCHANGED <<gh_file, gh_pulls, gh_procs>>
    /\ UNCHANGED <<coverage_vars, band_vars, geo_vars, norm_vars, load_vars, dmd_vars, branch_vars, save_vars,
                   parse_vars, numeric_vars, nearest_vars>>

\* One call open_pr(repo, EditBranch, "main", title, body, token).
OpenPrCall ==
    /\ ~Called("open_pr")
    /\ \E repo \in Repos, fault \in SaveFaults :
          LET call == open_pr(repo, gh_branches, gh_pulls, fault)
          IN  /\ gh_calls' = Log("open_pr",
                     Call("open_pr", 0, call.requests, call.kind,
                          [NoEffect EXCEPT !.pulls = Len(call.pulls) - Len(gh_pulls)], NoCommit))
              /\ gh_pulls' = call.pulls
    /\ UNCHANGED <<gh_branches, gh_file, gh_procs>>
    /\ UNCHANGED <<coverage_vars, band_vars, geo_vars, norm_vars, load_vars, dmd_vars, branch_vars, save_vars,
                   parse_vars, numeric_vars, nearest_vars>>

\* commit_file, lines 64-70: _split_repo, then _get_file_sha.  The call ends
\* here when either raises.
CommitFetch(p) ==
    /\ gh_procs[p].pc = "idle"
    /\ \E repo \in Repos, fault \in SaveFaults :
          LET got == get_file_sha(gh_branches, gh_file, fault)
              seen == file_on_branch(gh_branches, gh_file)
          IN  IF split_repo(repo) # "ok"
              THEN /\ gh_calls' = Log(CommitSlot(p),
                          Call("commit_file", p, <<>>, "raise", NoEffect, NoCommit))
                   /\ gh_procs' = [gh_procs EXCEPT ![p].pc = "done"]
              ELSE IF got.kind = "raise"
              THEN /\ gh_calls' = Log(CommitSlot(p),
                          Call("commit_file", p, <<Req("GET", got.status_code)>>, "raise",
                               NoEffect, [NoCommit EXCEPT !.seen = seen]))
                   /\ gh_procs' = [gh_procs EXCEPT ![p].pc = "done"]
              ELSE /\ gh_procs' = [gh_procs EXCEPT
                          ![p] = [pc |-> "fetched", sha |-> got.sha, seen |-> seen,
                                  get_status |-> got.status_code]]
                   /\ UNCHANGED gh_calls
    /\ UNCHANGED <<gh_branches, gh_file, gh_pulls>>
    /\ UNCHANGED <<coverage_vars, band_vars, geo_vars, norm_vars, load_vars, dmd_vars, branch_vars, save_vars,
                   parse_vars, numeric_vars, nearest_vars>>

\* commit_file, lines 72-89: the payload, the PUT, raise_for_status.
CommitPut(p) ==
    /\ gh_procs[p].pc = "fetched"
    /\ \E fault \in SaveFaults :
          LET payload == commit_payload(CommitContents[p], gh_procs[p].sha)
              put == put_contents(gh_branches, gh_file, payload, fault)
          IN  /\ gh_calls' = Log(CommitSlot(p),
                     Call("commit_file", p,
                          <<Req("GET", gh_procs[p].get_status), Req("PUT", put.status_code)>>,
                          raise_for_status(put.status_code),
                          [NoEffect EXCEPT !.commits = IF put.file # gh_file THEN 1 ELSE 0],
                          [seen |-> gh_procs[p].seen,
                           before_put |-> file_on_branch(gh_branches, gh_file),
                           after |-> file_on_branch(gh_branches, put.file),
                           payload |-> payload]))
              /\ gh_file' = put.file
    /\ gh_procs' = [gh_procs EXCEPT ![p].pc = "done"]
    /\ UNCHANGED <<gh_branches, gh_pulls>>
    /\ UNCHANGED <<coverage_vars, band_vars, geo_vars, norm_vars, load_vars, dmd_vars, branch_vars, save_vars,
                   parse_vars, numeric_vars, nearest_vars>>

\* Another writer changes the file on the edit branch, once, to a content
\* the file never had.
OtherWriter ==
    /\ EditBranch \in gh_branches
    /\ ~Called("other writer")
    /\ gh_file' = OtherContent
    /\ gh_calls' = Log("other writer", Call("other writer", 0, <<>>, "return", NoEffect, NoCommit))
    /\ UNCHANGED <<gh_branches, gh_pulls, gh_procs>>
    /\ UNCHANGED <<coverage_vars, band_vars, geo_vars, norm_vars, load_vars, dmd_vars, branch_vars, save_vars,
                   parse_vars, numeric_vars, nearest_vars>>

NextRemote ==
    \/ GeocodeCall
    \/ CreateBranchCall
    \/ OpenPrCall
    \/ \E p \in CommitProcs : CommitFetch(p)
    \/ \E p \in CommitProcs : CommitPut(p)
    \/ OtherWriter

SpecRemote == InitRemote /\ [][NextRemote]_vars

-----------------------------------------------------------------------------
(* The claims.                                                             *)

CoverageComputed == pc \in {"coverage_written", "done"}
MileBands == {"<=150", "150_300", ">300"}

\* C1: in the coverage table band_miles is the unknown sentinel iff the
\* county's centroid could not be resolved, and a resolved county gets exactly
\* one of the three mile bands, for every center list.
C1_UnknownIffUnresolved ==
    CoverageComputed =>
        \A i \in 1..Len(df) :
            /\ (df[i].band_miles = "Unknown")
                   <=> (isna(df[i].centroid_lat) \/ isna(df[i].centroid_lon))
            /\ (notnull(df[i].centroid_lat) /\ notnull(df[i].centroid_lon))
                   => df[i].band_miles \in MileBands

\* C2: a county without a resolved coordinate gets a null nearest center,
\* distance and drive time and both bands unknown, nothing is raised, and the
\* other counties of the run are processed and written.
C2_UnresolvedDegrades ==
    CoverageComputed =>
        /\ \A i \in 1..Len(df) :
              (isna(df[i].centroid_lat) \/ isna(df[i].centroid_lon)) =>
                  /\ df[i].nearest_center_id = "<None>"
                  /\ df[i].nearest_center_name = "<None>"
                  /\ df[i].great_circle_mi.k = "none"
                  /\ df[i].drive_time_minutes.k = "none"
                  /\ df[i].band_miles = "Unknown"
                  /\ df[i].band_drive_time = "Unknown"
        /\ \A i \in 1..Len(df) :
              (notnull(df[i].centroid_lat) /\ notnull(df[i].centroid_lon)) =>
                  /\ df[i].great_circle_mi.k \in {"num", "inf"}
                  /\ df[i].band_miles # "raise TypeError"
                  /\ df[i].band_drive_time # "raise TypeError"
        /\ Len(coverage_csv) = Len(df)
        /\ \A i \in 1..Len(df) :
              /\ coverage_csv[i].state_fips = df[i].state_fips
              /\ coverage_csv[i].county_fips = df[i].county_fips
              /\ coverage_csv[i].band_miles = df[i].band_miles
              /\ coverage_csv[i].great_circle_mi = df[i].great_circle_mi
        /\ \A j \in 1..Len(df_model) : \E i \in 1..Len(coverage_csv) :
              /\ coverage_csv[i].state_fips = df_model[j].state_fips
              /\ coverage_csv[i].county_fips = df_model[j].county_fips

C2_Witness ==
    /\ pc = "done"
    /\ \E i, j \in 1..Len(coverage_csv) :
          /\ isna(df[i].centroid_lat)
          /\ coverage_csv[i].band_miles = "Unknown"
          /\ coverage_csv[i].nearest_center_id = "<None>"
          /\ notnull(df[j].centroid_lat) /\ notnull(df[j].centroid_lon)
          /\ coverage_csv[j].band_miles \in MileBands
          /\ coverage_csv[j].nearest_center_id # "<None>"

\* C5: a coverage row is flagged iff its mile band is '>300' or its drive-time
\* band is '>360'; a row with unknown bands is never flagged.
C5_FlagIffWorstTier ==
    CoverageComputed =>
        \A i \in 1..Len(coverage_csv) :
            /\ (coverage_csv[i].flags # "")
                   <=> (coverage_csv[i].band_miles = ">300"
                        \/ coverage_csv[i].band_drive_time = ">360")
            /\ (coverage_csv[i].band_miles = "Unknown"
                /\ coverage_csv[i].band_drive_time = "Unknown")
                   => coverage_csv[i].flags = ""

C5_Witness ==
    /\ CoverageComputed
    /\ \E i, j \in 1..Len(coverage_csv) :
          /\ coverage_csv[i].flags = "distance_gt_300"
          /\ coverage_csv[i].band_miles = ">300"
          /\ coverage_csv[i].band_drive_time = ">360"
          /\ coverage_csv[j].band_miles = "Unknown"
          /\ coverage_csv[j].band_drive_time = "Unknown"
          /\ coverage_csv[j].flags = ""

\* How often row r occurs in table t.
Occurrences(t, r) == Cardinality({i \in 1..Len(t) : t[i] = r})

\* C6: the gap table holds exactly the coverage rows whose mile band or
\* drive-time band is the worst tier, in non-increasing order of the mid
\* estimate.
C6_GapTableFilteredAndSorted ==
    pc = "done" =>
        /\ \A i \in 1..Len(gap_csv) :
              /\ gap_csv[i].band_miles = ">300" \/ gap_csv[i].band_drive_time = ">360"
              /\ gap_csv[i].band_miles # "Unknown"
              /\ Occurrences(gap_csv, gap_csv[i]) = Occurrences(coverage_csv, gap_csv[i])
        /\ \A i \in 1..Len(coverage_csv) :
              (coverage_csv[i].band_miles = ">300"
               \/ coverage_csv[i].band_drive_time = ">360")
                  => Occurrences(gap_csv, coverage_csv[i]) = Occurrences(coverage_csv, coverage_csv[i])
        /\ \A i \in 1..(Len(gap_csv) - 1) :
              gap_csv[i].modeled_dmd_5_24_mid.v >= gap_csv[i + 1].modeled_dmd_5_24_mid.v

C6_Witness ==
    /\ pc = "done"
    /\ Len(gap_csv) = 2
    /\ Len(coverage_csv) = 2
    /\ coverage_csv[1].modeled_dmd_5_24_mid.v < coverage_csv[2].modeled_dmd_5_24_mid.v
    /\ gap_csv[1] = coverage_csv[2] /\ gap_csv[2] = coverage_csv[1]

\* C7: the coverage table has exactly one row per county of the county model
\* table, whatever the centroid table holds.
C7_OneRowPerCounty ==
    CoverageComputed =>
        /\ Len(coverage_csv) = Len(df_model)
        /\ \A j \in 1..Len(df_model) :
              Cardinality({ i \in 1..Len(coverage_csv) :
                              /\ coverage_csv[i].state_fips = df_model[j].state_fips
                              /\ coverage_csv[i].county_fips = df_model[j].county_fips }) = 1

\* C8: after the center-coordinate assignment every care center has both lat
\* and lon non-null.
C8_CentersHaveCoordinates ==
    pc # "read" =>
        \A i \in 1..Len(df_centers) :
            df_centers[i].lat.k = "num" /\ df_centers[i].lon.k = "num"

C8_Witness ==
    /\ pc = "centers_assigned"
    /\ \E i, j \in 1..Len(df_centers) :
          /\ df_centers[i].state = "AL"
          /\ df_centers[i].lat = Num(32806671) /\ df_centers[i].lon = Num(-86791130)
          /\ df_centers[j].state = "<NaN>"
          /\ df_centers[j].lat = Num(39828300) /\ df_centers[j].lon = Num(-98579500)

\* C3: with the mile band table, classify_band puts 150 in '<=150' and 300 in
\* '150_300'.
C3_BoundaryBands ==
    (band_pc = "returned" /\ band_table = "BAND_MILES") =>
        /\ band_value = Num(150000) => band_result = "<=150"
        /\ band_value = Num(300000) => band_result = "150_300"

\* C4: with the mile band table, classify_band returns one of the three bands
\* for every numeric input and the unknown sentinel only for null or NaN.
C4_BandsExhaustive ==
    (band_pc = "returned" /\ band_table = "BAND_MILES") =>
        /\ band_value.k \in {"num", "inf", "-inf"} => band_result \in MileBands
        /\ band_result = "Unknown" => band_value.k \in {"nan", "none"}

\* C9: geocode_address never raises; a transport error, a timeout, a status
\* other than 200, an empty result list or an unparseable response give None,
\* and a successful lookup gives (lat, lon, raw).
GeocodeSucceeds(resp) ==
    /\ resp.transport = "ok"
    /\ resp.status_code = 200
    /\ resp.body.json = "list"
    /\ Len(resp.body.items) > 0
    /\ resp.body.items[1].lat.k = "num"
    /\ resp.body.items[1].lon.k = "num"

C9_GeocodeNeverRaises ==
    geo_pc = "returned" =>
        /\ geo_result.kind = "return"
        /\ geo_result.exc = ""
        /\ ~GeocodeSucceeds(geo_response) => geo_result.none
        /\ GeocodeSucceeds(geo_response) =>
              /\ ~geo_result.none
              /\ geo_result.lat = geo_response.body.items[1].lat
              /\ geo_result.lon = geo_response.body.items[1].lon
              /\ geo_result.raw = geo_response.body.items[1]

C9_Witness ==
    /\ geo_pc = "returned"
    /\ geo_response.transport = "Timeout"
    /\ geo_result.kind = "return" /\ geo_result.none

\* C10: county code '1' becomes '001' and state code '1' becomes '01', giving
\* geoid '01001'; a county code of more than three characters is cut to its
\* last three; normalizing normalized codes again changes nothing.
C10_IdentifierNormalization ==
    /\ norm_pc \in {"normalized", "renormalized"} =>
          /\ raw_state_fips = <<"1">> => norm_state_fips = <<"0", "1">>
          /\ raw_county_fips = <<"1">> => norm_county_fips = <<"0", "0", "1">>
          /\ (raw_state_fips = <<"1">> /\ raw_county_fips = <<"1">>)
                => norm_geoid = <<"0", "1", "0", "0", "1">>
          /\ Len(raw_county_fips) >= 3 =>
                norm_county_fips = SubSeq(raw_county_fips, Len(raw_county_fips) - 2,
                                          Len(raw_county_fips))
    /\ norm_pc = "renormalized" =>
          /\ norm_state_fips = prev_state_fips
          /\ norm_county_fips = prev_county_fips
          /\ norm_geoid = prev_geoid

C10_Witness ==
    /\ norm_pc = "renormalized"
    /\ raw_state_fips = <<"1">>
    /\ raw_county_fips = <<"1", "0", "0", "1">>
    /\ norm_geoid = <<"0", "1", "0", "0", "1">>

\* A string of exactly n decimal digits.
IsDigitString(s, n) ==
    /\ Len(s) = n
    /\ \A i \in 1..Len(s) : \E d \in 1..Len(Digits) : s[i] = Digits[d]

\* C11: after the normalization of load_coverage, whatever the file held
\* (a short, an over-long or an empty code, a missing identifier column),
\* state_fips is a string of 2 digits, county_fips one of 3 digits and geoid
\* one of 5 digits.
C11_IdentifiersFixedWidth ==
    norm_pc \in {"normalized", "renormalized"} =>
        /\ IsDigitString(norm_state_fips, 2)
        /\ IsDigitString(norm_county_fips, 3)
        /\ IsDigitString(norm_geoid, 5)

\* The rows of the returned table that come from row src of the source file.
ResultRowsOf(src) == { j \in 1..Len(load_result.rows) : load_result.rows[j].src = src }
\* A load has returned and the source is as that load read it.
Loaded == load_pc \in {"loaded", "reloaded"}
\* The last load made the centroid join.
Joined == missing_mask_any(load_before_join) /\ lookup_file.exists

\* C12: the centroid backfill never overwrites a present coordinate: a row
\* that has a non-null lat (resp. lon) before the centroid join is in the
\* returned table with the same lat (resp. lon), whatever the lookup holds.
C12_BackfillKeepsPresent ==
    Loaded =>
        \A i \in 1..Len(load_before_join.rows) :
            LET row == load_before_join.rows[i]
            IN  /\ (load_before_join.has_lat /\ notnull(row.lat)) =>
                      /\ ResultRowsOf(row.src) # {}
                      /\ \A j \in ResultRowsOf(row.src) : load_result.rows[j].lat = row.lat
                /\ (load_before_join.has_lon /\ notnull(row.lon)) =>
                      /\ ResultRowsOf(row.src) # {}
                      /\ \A j \in ResultRowsOf(row.src) : load_result.rows[j].lon = row.lon

\* A load that joined a row holding its own lat with a lookup entry of the
\* same geoid that holds another lat; the row kept its own.
C12_Witness ==
    /\ Loaded
    /\ Joined
    /\ \E i \in 1..Len(load_before_join.rows) :
          LET row == load_before_join.rows[i]
          IN  /\ load_before_join.has_lat /\ notnull(row.lat)
              /\ \E k \in 1..Len(lookup_file.rows) :
                    /\ lookup_file.rows[k].geoid = row.geoid
                    /\ notnull(lookup_file.rows[k].centroid_lat)
                    /\ lookup_file.rows[k].centroid_lat # row.lat
              /\ \E j \in ResultRowsOf(row.src) :
                    /\ load_result.rows[j].lat = row.lat
                    /\ notnull(load_result.rows[j].lon)

\* C13: when county_coverage.csv has both coordinate columns and a row lacks
\* a coordinate, the row is kept and the coordinate it lacks is filled from
\* the lookup entry of its geoid.
C13_PartialRowsBackfilled ==
    (Loaded /\ cov_file.lat_name # "" /\ cov_file.lon_name # "") =>
        \A i \in 1..Len(cov_file.rows) :
            LET row == cov_file.rows[i]
                geoid == geoid_column(state_fips_column(row.state_fips),
                                      county_fips_column(row.county_fips))
                entries == { k \in 1..Len(lookup_file.rows) : lookup_file.rows[k].geoid = geoid }
            IN  ((isna(row.lat) \/ isna(row.lon)) /\ lookup_file.exists /\ entries # {}) =>
                    \E j \in ResultRowsOf(i) : \E k \in entries :
                        /\ load_result.rows[j].lat =
                              (IF isna(row.lat) THEN lookup_file.rows[k].centroid_lat ELSE row.lat)
                        /\ load_result.rows[j].lon =
                              (IF isna(row.lon) THEN lookup_file.rows[k].centroid_lon ELSE row.lon)

\* C14: after any sequence of loads coverage_with_coords.csv holds exactly
\* the table the last completed load returned, and a load leaves
\* county_coverage.csv as it was.
C14_DerivedIsLastLoad ==
    /\ [](load_pc # "start" => derived_csv = to_csv(load_result))
    /\ [][load_pc' \in {"loaded", "reloaded"} => cov_file' = cov_file]_vars

\* A second load, of a replaced source, that returned rows: the file holds
\* these rows and nothing of the first load.
C14_Witness ==
    /\ load_pc = "reloaded"
    /\ Len(load_result.rows) > 0
    /\ derived_csv = to_csv(load_result)
    /\ Len(cov_file.rows) = MaxCovRows
    /\ cov_file.lat_name = "" /\ cov_file.lon_name = ""

\* The sum of the counts a row holds (an empty cell adds nothing).
CountSum(row) ==
    LET c(col) == IF row[col] = NaN THEN 0 ELSE row[col].v
    IN  c("male_5_9") + c("male_10_14") + c("male_15_19") + c("male_20_24")
\* out is exact / unit rounded to the nearest integer, a tie either way.
IsRounded(out, exact, unit) ==
    LET q == exact \div unit
        r == exact - q * unit
    IN  \/ out = q /\ 2 * r <= unit
        \/ out = q + 1 /\ 2 * r >= unit

\* C15: with T the sum of the four age-band counts, low is
\* min(T*rate_low*fraction, T*diagnosed_rate), high is
\* max(T*rate_high*fraction, T*diagnosed_rate) and mid is
\* (T*rate_mid*fraction + T*diagnosed_rate)/2, each rounded to one decimal;
\* T = 100000 gives low 6, mid 8.5, high 13.5.
C15_BracketedEstimates ==
    dmd_pc = "written" =>
        LET T == CountSum(df_pop)
            registry(rate) == T * rate * DMD_FRACTION_OF_DBMD
            diagnosed == T * DMD_DIAGNOSED_PREVALENCE * 100
        IN  /\ IsRounded(df_final.low, Min2(registry(DBMD_PREVALENCE_LOW), diagnosed),
                          TenthInUnits)
            /\ IsRounded(df_final.high, Max2(registry(DBMD_PREVALENCE_HIGH), diagnosed),
                          TenthInUnits)
            /\ IsRounded(df_final.mid, registry(DBMD_PREVALENCE_MID) + diagnosed,
                          2 * TenthInUnits)
            /\ T = 100000 => df_final.low = 60 /\ df_final.mid = 85 /\ df_final.high = 135

C15_Witness ==
    /\ dmd_pc = "written"
    /\ CountSum(df_pop) = 100000
    /\ df_final.low = 60 /\ df_final.mid = 85 /\ df_final.high = 135

\* C16: negative or missing counts count as zero, so that low, mid and high
\* are never negative.
C16_EstimatesNonNegative ==
    dmd_pc = "written" => df_final.low >= 0 /\ df_final.mid >= 0 /\ df_final.high >= 0

\* C17: create_branch is idempotent: a call returns 'refs/heads/<new_branch>',
\* a call made when the branch exists already succeeds with the same ref and
\* creates nothing, a second call after a successful one succeeds too, and a
\* creation that failed is reported as a failure, so that after a reported
\* success the branch exists.
C17_CreateBranchIdempotent ==
    \A i \in 1..Len(br_calls) :
        LET c == br_calls[i]
            answered == c.get = 200 /\ c.post \in {201, 422}
        IN  /\ c.kind = "return" => c.ref = <<"refs", "heads", br_new_branch>>
            /\ (i > 1 /\ br_calls[i - 1].kind = "return" /\ answered) =>
                  /\ c.kind = "return"
                  /\ c.ref = br_calls[i - 1].ref
                  /\ c.after = br_calls[i - 1].after
            /\ c.kind = "return" => br_new_branch \in c.after

\* The file commit of the last click failed: the request raised or was
\* answered with an error status.
CommitFailed ==
    /\ last_save.clicked /\ last_save.put_sent
    /\ (last_save.exc # "" \/ last_save.put_status >= 400)

\* C18: when a remote publish step fails, the persisted local table and the
\* working table are as they were before the attempt, and the failure is
\* shown with its cause.
C18_FailedPublishLeavesTables ==
    CommitFailed =>
        /\ local_file = last_save.local_before
        /\ edited_df = last_save.working_before
        /\ \E i \in 1..Len(ui_messages) : ui_messages[i].level = "error"

\* The rows of a table a validation reports: a geoid that is no 5-digit code,
\* a lat that is no number.
ValidationIssues(t) ==
    { i \in 1..Len(t) : ~validate_fips(t[i].geoid) \/ t[i].lat.k # "num" }

\* C19: a remote commit is issued only for a table whose validation report
\* is empty and only when the publish credentials are configured; a table
\* with an issue is never sent, and can still be saved locally.
C19_CommitOnlyWhenValid ==
    /\ (last_save.clicked /\ last_save.put_sent) =>
          /\ secrets.github_token # ""
          /\ ValidationIssues(last_save.working_before) = {}
    /\ (last_save.clicked /\ secrets.github_token = "") => last_save.local_written

\* C20: the edit workflow never writes onto the base branch: a commit goes
\* to a branch that did not exist before the save, and the file on the base
\* branch stays what it was.
C20_NoDirectWriteToBase ==
    /\ (last_save.clicked /\ last_save.put_sent) =>
          /\ last_save.put_branch # DefaultBranch
          /\ last_save.put_branch \notin RemoteBranches
    /\ remote_files[DefaultBranch] = edit_to_csv(orig_df)

\* C21: from any edit state Revert makes the working table equal to the
\* original table and leaves the persisted file (and the remote) as it was;
\* no step of the tab, edits included, changes the original table.
C21_RevertRestoresOriginal ==
    /\ [][last_click' = "revert" =>
             /\ edited_df' = orig_df
             /\ local_file' = local_file
             /\ remote_files' = remote_files]_vars
    /\ [][orig_df' = orig_df]_vars
    /\ [](last_click = "revert" => edited_df = orig_df)

C21_Witness ==
    /\ last_click = "revert"
    /\ Len(orig_df) > 0
    /\ edited_df = orig_df
    /\ local_file # edit_to_csv(orig_df)

\* C22: coerce_distance_band maps every band value the parser must accept
\* (canonical forms, padded, with a dash range, with a leading comparison
\* operator, with a unit suffix, raw numbers) to one of the three canonical
\* strings, and returns None only for values that name no band.
C22_TolerantParser ==
    cdb_out # "<pending>" =>
        /\ cdb_val \in Padded(BandCores) => cdb_out \in CanonicalBands
        /\ cdb_out = NoneStr => cdb_val \notin Padded(BandCores)

\* C23: the count numeric_or_nan reports leaves out every cell that was
\* missing before the edit and is still missing after it, and takes in every
\* cell that was numeric before the edit and is not numeric after it.
C23_CountsOnlyNewNonNumeric ==
    num_result # NoCount =>
        LET n == Len(num_series)
            still_missing == { i \in 1..n : isna(num_original[i]) /\ num_series[i] = NaN }
            newly_non_numeric ==
                { i \in 1..n : notnull(num_original[i]) /\ isna(to_numeric(num_series[i])) }
        IN  /\ num_result.count >= Cardinality(newly_non_numeric)
            /\ num_result.count <= n - Cardinality(still_missing)

\* The rows of the list that have both coordinates, and their distances.
Usable(centers) ==
    { i \in 1..Len(centers) : notnull(centers[i].lat) /\ notnull(centers[i].lon) }
DistTo(county, row) == haversine_distance(county[1], county[2], row.lat, row.lon)

\* C24: compute_nearest_center returns the id, name and distance of a center
\* at minimal distance among the centers with both coordinates, the first of
\* the list among those at that distance; a center without lat or lon is
\* never returned; with all distances distinct every permutation of the
\* list gives the same result.
C24_NearestIsFirstMinimum ==
    nc_result # NoNearest =>
        LET n == Len(nc_centers)
            usable == Usable(nc_centers)
            d(i) == DistTo(nc_county, nc_centers[i])
        IN  /\ usable # {} =>
                  \E i \in usable :
                      /\ nc_result.id = nc_centers[i].center_id
                      /\ nc_result.name = nc_centers[i].center_name
                      /\ nc_result.dist = d(i)
                      /\ \A j \in usable : d(i).v <= d(j).v
                      /\ \A j \in usable : d(j) = d(i) => i <= j
            /\ \A i \in (1..n) \ usable : nc_result.id # nc_centers[i].center_id
            /\ (\A i, j \in usable : i # j => d(i) # d(j)) =>
                  \A p \in IndexPerms(n) :
                      compute_nearest_center(nc_county[1], nc_county[2],
                                             [i \in 1..n |-> nc_centers[p[i]]]) = nc_result

C24_Witness ==
    /\ nc_result # NoNearest
    /\ \E i, j, k \in 1..Len(nc_centers) :
          /\ i < j
          /\ {i, j} \subseteq Usable(nc_centers)
          /\ isna(nc_centers[k].lon)
          /\ DistTo(nc_county, nc_centers[i]) = DistTo(nc_county, nc_centers[j])
          /\ nc_result.id = nc_centers[i].center_id
          /\ nc_result.dist.k = "num"

\* What the stated priority order gives a center row: its own
\* coordinate when lat and lon are both present, else the centroid of its
\* state when the state has a code with a centroid, else the default.
ResolvedByPriority(row) ==
    LET centroid == STATE_CENTROIDS_get(STATE_ABBR_TO_FIPS_get(row.state))
    IN  IF notnull(row.lat) /\ notnull(row.lon) THEN <<row.lat, row.lon>>
        ELSE IF centroid # NoCoords THEN centroid
        ELSE DefaultCoords

\* C25: the assignment step gives every center the first of: its existing
\* coordinate (both cells non-null, kept unchanged), the centroid of its
\* state, the global default; the default only when the two others fail.
C25_CenterCoordinatePriority ==
    [][(pc = "read" /\ pc' = "centers_assigned") =>
          /\ Len(df_centers') = Len(df_centers)
          /\ \A i \in 1..Len(df_centers) :
                /\ <<df_centers'[i].lat, df_centers'[i].lon>> = ResolvedByPriority(df_centers[i])
                /\ <<df_centers'[i].lat, df_centers'[i].lon>> = DefaultCoords
                      => /\ isna(df_centers[i].lat) \/ isna(df_centers[i].lon)
                         /\ df_centers[i].state # "AL"]_vars

C25_Witness ==
    /\ pc = "centers_assigned"
    /\ \E i, j \in 1..Len(df_centers) :
          /\ df_centers[i].state = "AL"
          /\ <<df_centers[i].lat, df_centers[i].lon>> = Coord(4)
          /\ df_centers[j].state = "AL"
          /\ <<df_centers[j].lat, df_centers[j].lon>> = Coord(1)

\* Distances on the 0.05-mile grid from 299.5 to 300.5 miles.
NearThreeHundred == { Num(k * 50) : k \in 5990..6010 }

\* C29: the drive time being distance/50*60, a county with a computed
\* distance has band_drive_time '>360' exactly when its band_miles is
\* '>300' (on the rows of the run and on every distance around 300 miles);
\* no row carries the flag 'drive_gt_360'; the gap table holds exactly the
\* rows whose band_miles is '>300'.
C29_DriveBandFollowsMileBand ==
    CoverageComputed =>
        /\ \A i \in 1..Len(coverage_csv) :
              /\ notnull(coverage_csv[i].great_circle_mi) =>
                    /\ coverage_csv[i].drive_time_minutes
                          = drive_time(coverage_csv[i].great_circle_mi)
                    /\ (coverage_csv[i].band_drive_time = ">360")
                          <=> (coverage_csv[i].band_miles = ">300")
              /\ coverage_csv[i].flags # "drive_gt_360"
        /\ \A d \in NearThreeHundred :
              (band_of(drive_time(d), BAND_DRIVE) = ">360") <=> (band_of(d, BAND_MILES) = ">300")
        /\ pc = "done" =>
              \A r \in {coverage_csv[i] : i \in 1..Len(coverage_csv)}
                      \cup {gap_csv[i] : i \in 1..Len(gap_csv)} :
                  Occurrences(gap_csv, r)
                      = (IF r.band_miles = ">300" THEN Occurrences(coverage_csv, r) ELSE 0)

C29_Witness ==
    /\ pc = "done"
    /\ Len(gap_csv) = 1
    /\ gap_csv[1].band_miles = ">300" /\ gap_csv[1].band_drive_time = ">360"
    /\ \E i \in 1..Len(coverage_csv) :
          /\ coverage_csv[i].band_miles = "150_300"
          /\ coverage_csv[i].band_drive_time = "120_360"
          /\ coverage_csv[i].great_circle_mi.k = "num"
          /\ coverage_csv[i].flags = ""

\* C30: for a row whose total is not negative, low <= mid <= high both for
\* the estimates before rounding and for the written, rounded ones; low is
\* the diagnosed-rate estimate and high is the registry-derived high estimate.
C30_EstimatesOrdered ==
    (dmd_pc = "written" /\ df_final.male_5_24_total >= 0) =>
        LET T == df_final.male_5_24_total
            low == Min2(dmd_from_dbmd_low(T), dmd_diagnosed(T))
            high == Max2(dmd_from_dbmd_high(T), dmd_diagnosed(T))
            twice_mid == dmd_from_dbmd_mid(T) + dmd_diagnosed(T)
        IN  /\ low <= twice_mid - low
            /\ twice_mid - high <= high
            /\ df_final.low <= df_final.mid
            /\ df_final.mid <= df_final.high
            /\ low = dmd_diagnosed(T)
            /\ high = dmd_from_dbmd_high(T)
            /\ df_final.low = round_half_even(dmd_diagnosed(T), TenthInUnits)
            /\ df_final.high = round_half_even(dmd_from_dbmd_high(T), TenthInUnits)

C30_Witness ==
    /\ dmd_pc = "written"
    /\ df_final.male_5_24_total = 50000
    /\ df_final.low = 30
    /\ df_final.low < df_final.mid
    /\ df_final.mid < df_final.high

\* The finished calls of a function, and facts about the requests of a call.
CallsOf(fns) == { gh_calls[slot] : slot \in { sl \in CallSlots : gh_calls[sl].fn \in fns } }
Methods(c) == [i \in 1..Len(c.requests) |-> c.requests[i].method]
IsPrefix(s, t) == Len(s) <= Len(t) /\ SubSeq(t, 1, Len(s)) = s
\* A request that failed: no answer, or an error status.  The 404 that tells
\* commit_file there is no file yet is an answer like another.
FailedRequest(c, i) ==
    /\ c.requests[i].status_code = 0 \/ c.requests[i].status_code >= 400
    /\ ~(c.fn = "commit_file" /\ c.requests[i].method = "GET"
          /\ c.requests[i].status_code = 404)

\* C26: a commit_file call sends its GET first; its PUT carries the hash of
\* the file the GET saw exactly when the GET saw a file, and no hash
\* otherwise; a failed GET or a failed PUT makes the call raise, and a call
\* that returns has had its PUT accepted.
C26_CommitFileCreateOrUpdate ==
    \A c \in CallsOf({"commit_file"}) :
        /\ c.requests # <<>> => c.requests[1].method = "GET"
        /\ Len(c.requests) = 2 =>
              /\ c.requests[2].method = "PUT"
              /\ c.commit.payload.has_sha <=> c.commit.seen # Absent
              /\ c.commit.payload.has_sha => c.commit.payload.sha = sha_of(c.commit.seen)
        /\ (\E i \in 1..Len(c.requests) : FailedRequest(c, i)) => c.kind = "raise"
        /\ c.kind = "return" =>
              /\ Len(c.requests) = 2
              /\ c.requests[2].status_code \in {200, 201}
              /\ c.commit.after = c.commit.payload.content

C26_Witness ==
    \E c1, c2 \in CallsOf({"commit_file"}) :
        /\ c1.kind = "return" /\ ~c1.commit.payload.has_sha /\ c1.commit.seen = Absent
        /\ c2.kind = "return" /\ c2.commit.payload.has_sha
        /\ c2.commit.seen = c1.commit.after

\* What C27 says of every function but open_pr: the requests of a call are
\* a beginning of the function's sequence, none follows a failed one, and
\* the call creates at most one branch, one commit and one pull request.
NoRetry(c) ==
    /\ c.fn = "geocode_address" => IsPrefix(Methods(c), <<"GET">>)
    /\ c.fn = "create_branch" => IsPrefix(Methods(c), <<"GET", "POST">>)
    /\ c.fn = "commit_file" => IsPrefix(Methods(c), <<"GET", "PUT">>)
    /\ \A i \in 1..(Len(c.requests) - 1) : ~FailedRequest(c, i)
    /\ c.effect.branches <= 1 /\ c.effect.commits <= 1 /\ c.effect.pulls <= 1

\* C27, as stated: no call retries: geocode_address sends at most one GET,
\* create_branch at most one GET and one POST, commit_file at most one GET
\* and one PUT, open_pr exactly one POST; no request follows a failed one;
\* a call creates at most one branch, one commit and one pull request.
C27_NoAutomaticRetry ==
    \A c \in CallsOf({"geocode_address", "create_branch", "commit_file", "open_pr"}) :
        /\ NoRetry(c)
        /\ c.fn = "open_pr" => Methods(c) = <<"POST">>

\* C27, amended: as above, with open_pr sending at most one POST: none when
\* the repo argument is refused before any request, and the call raises then.
C27_NoAutomaticRetryAmended ==
    \A c \in CallsOf({"geocode_address", "create_branch", "commit_file", "open_pr"}) :
        /\ NoRetry(c)
        /\ c.fn = "open_pr" =>
              /\ IsPrefix(Methods(c), <<"POST">>)
              /\ Methods(c) = <<>> => c.kind = "raise" /\ c.effect = NoEffect

C27_Witness ==
    /\ \E c \in CallsOf({"open_pr"}) : c.requests = <<>> /\ c.kind = "raise"
    /\ \E c \in CallsOf({"create_branch"}) : c.requests = <<Req("GET", 500)>> /\ c.kind = "raise"
    /\ \E c \in CallsOf({"commit_file"}) :
          c.requests = <<Req("GET", 200), Req("PUT", 500)>> /\ c.kind = "raise"
    /\ \E c \in CallsOf({"geocode_address"}) : c.requests = <<Req("GET", 503)>>

\* C28: a commit_file call whose file was changed between its GET and its
\* PUT sends the hash it fetched, is refused, raises and leaves the change
\* in place; two commit_file calls that return have not seen the same
\* version of the file.
C28_NoLostUpdate ==
    /\ \A c \in CallsOf({"commit_file"}) :
          (Len(c.requests) = 2 /\ c.commit.before_put # c.commit.seen) =>
              /\ c.commit.seen # Absent => c.commit.payload.sha = sha_of(c.commit.seen)
              /\ c.requests[2].status_code = 0 \/ c.requests[2].status_code >= 400
              /\ c.kind = "raise"
              /\ c.commit.after = c.commit.before_put
    /\ \A c1, c2 \in CallsOf({"commit_file"}) :
          (c1.proc # c2.proc /\ c1.kind = "return" /\ c2.kind = "return")
              => c1.commit.seen # c2.commit.seen

C28_Witness ==
    \E c1, c2 \in CallsOf({"commit_file"}) :
        /\ c1.commit.seen = FirstContent /\ c1.commit.before_put = OtherContent
        /\ c1.requests[2].status_code = 409 /\ c1.kind = "raise"
        /\ c1.commit.payload.sha = sha_of(FirstContent)
        /\ c1.commit.after = OtherContent
        /\ c2.commit.seen = OtherContent /\ c2.kind = "return"


====
